---- MODULE Spec2Model ----
(***************************************************************************)
(* Model of the hero-alias editor of dota2_alias_modifier.py:              *)
(* Dota2AliasModifier.extract_hero_section (the section locator),          *)
(* Dota2AliasModifier.modify_aliases (the alias merger and its loop over   *)
(* the configuration), and the steps of __main__ and run() around them:    *)
(* find_dota_path before, create_vpk, place_vpk and the error exit after.  *)
(*                                                                         *)
(* Text is a sequence of one-character strings.  Positions are Python's    *)
(* 0-based positions: At(s, p) is s[p] and Slice(s, a, b) is s[a:b].       *)
(*                                                                         *)
(* The functions of utils.py (download_file, retry_with_backoff,           *)
(* get_latest_github_release_asset) and the control flow of run() and of   *)
(* place_vpk are followed step by step in specifications of their own.     *)
(*                                                                         *)
(* The specifications share the variables:                                 *)
(*   Spec          the program on short documents                          *)
(*   SpecScaled    the same steps with the locator's two distances scaled  *)
(*                 down, so that blocks longer than the scan distance      *)
(*                 occur                                                   *)
(*   SpecPath      __main__ and find_dota_path over every argument,        *)
(*                 environment and registry                                *)
(*   SpecDownload  download_file against a server that honours, ignores    *)
(*                 or rejects the Range header, and cuts or breaks bodies  *)
(*   SpecRetry     retry_with_backoff over every outcome of func           *)
(*   SpecAsset     get_latest_github_release_asset over lists of assets    *)
(*   SpecRun       run() over every set of methods that raise              *)
(*   SpecPlace     place_vpk for one file, each file operation done or     *)
(*                 failed                                                  *)
(***************************************************************************)
EXTENDS Integers, Sequences, FiniteSets, TLC

VARIABLES file, backup, content, config, idx, pc, log, prev, runs, firstOut,
          limits, args, environ, registry, dota_path, vpk, placed, exit_status,
          temp_file, dest_file, resume_download, downloaded_bytes,
          expected_size, range_header, response, file_mode, dl_pc,
          max_retries, initial_delay, attempt, last_exception, calls, sleeps,
          rt_pc, rt_result,
          asset_pattern, assets, chosen_asset, as_pc,
          run_pc, called, raising, temp_dir, run_exit,
          target_vpk, backup_path, source_vpk, previous_vpk, pv_pc

\* what modify_aliases works on
docVars == <<file, backup, content, config, idx, log, prev, runs, firstOut>>

\* what find_dota_path works on
pathVars == <<args, environ, registry, dota_path>>

\* what the steps of run() after modify_aliases work on
tailVars == <<vpk, placed, exit_status>>

\* what download_file works on
dlVars == <<temp_file, dest_file, resume_download, downloaded_bytes,
            expected_size, range_header, response, file_mode, dl_pc>>

\* what the functions of utils.py work on
\* what retry_with_backoff works on; calls holds the outcome of every call of
\* func and sleeps the argument of every time.sleep
retryVars == <<max_retries, initial_delay, attempt, last_exception, calls, sleeps,
               rt_pc, rt_result>>

\* what get_latest_github_release_asset works on
assetVars == <<asset_pattern, assets, chosen_asset, as_pc>>

\* what run() works on: the methods called so far, the methods that raise
\* in this environment, whether the temp directory exists, the exit status
runVars == <<run_pc, called, raising, temp_dir, run_exit>>

\* what place_vpk works on: the file in the game directory, its .vpk.bak
\* copy, the new package, and the content the target had at the call
placeVars == <<target_vpk, backup_path, source_vpk, previous_vpk, pv_pc>>

\* what the specifications of the single functions work on
utilVars == <<dlVars, retryVars, assetVars, runVars, placeVars>>

vars == <<docVars, pc, limits, pathVars, tailVars, utilVars>>

-----------------------------------------------------------------------------
(* Python str primitives                                                   *)

At(s, p) == s[p + 1]

Slice(s, a, b) == SubSeq(s, a + 1, b)

SetMin(S) == CHOOSE m \in S : \A n \in S : m <= n

\* str.find(pat, from): lowest position >= from where pat occurs, else -1
Find(s, pat, from) ==
    LET hits == {p \in from..(Len(s) - Len(pat)) :
                    /\ pat # <<>> => At(s, p) = pat[1]
                    /\ Slice(s, p, p + Len(pat)) = pat}
    IN  IF hits = {} THEN -1 ELSE SetMin(hits)

\* str.count(ch) for a single character
Count(s, ch) == Cardinality({p \in 1..Len(s) : s[p] = ch})

\* whitespace of str.strip(), str.split() and the regex class \s
IsSpace(c) == c \in {" ", "\t", "\n", "\r", "\f"}

Upper == <<"A","B","C","D","E","F","G","H","I","J","K","L","M",
           "N","O","P","Q","R","S","T","U","V","W","X","Y","Z">>

Lower == <<"a","b","c","d","e","f","g","h","i","j","k","l","m",
           "n","o","p","q","r","s","t","u","v","w","x","y","z">>

Digits == {"0","1","2","3","4","5","6","7","8","9"}

\* the regex class \w
IsWord(c) == c \in ({Upper[k] : k \in 1..26} \cup {Lower[k] : k \in 1..26}
                     \cup Digits \cup {"_"})

LowerChar(c) ==
    IF \E k \in 1..26 : Upper[k] = c
    THEN Lower[CHOOSE k \in 1..26 : Upper[k] = c]
    ELSE c

\* str.lower()
lower(s) == [k \in 1..Len(s) |-> LowerChar(s[k])]

\* str.strip()
strip(s) ==
    LET inked == {p \in 1..Len(s) : ~IsSpace(s[p])}
    IN  IF inked = {} THEN <<>>
        ELSE SubSeq(s, SetMin(inked), CHOOSE m \in inked : \A n \in inked : n <= m)

\* str.split(";"): every ';' separates, empty fields are kept
RECURSIVE split_semicolon(_)
split_semicolon(s) ==
    LET p == Find(s, <<";">>, 0)
    IN  IF p = -1 THEN <<s>>
        ELSE <<Slice(s, 0, p)>> \o split_semicolon(Slice(s, p + 1, Len(s)))

\* str.split(): runs of whitespace separate, no empty fields
RECURSIVE split_whitespace(_)
split_whitespace(s) ==
    LET t == strip(s)
        gaps == {p \in 1..Len(t) : IsSpace(t[p])}
    IN  IF t = <<>> THEN <<>>
        ELSE IF gaps = {} THEN <<t>>
        ELSE <<SubSeq(t, 1, SetMin(gaps) - 1)>>
                 \o split_whitespace(SubSeq(t, SetMin(gaps), Len(t)))

\* sep.join(list)
RECURSIVE join(_, _)
join(list, sep) ==
    IF list = <<>> THEN <<>>
    ELSE IF Len(list) = 1 THEN list[1]
    ELSE list[1] \o sep \o join(Tail(list), sep)

\* [a for a in list if a.strip()]
RECURSIVE non_blank(_)
non_blank(list) ==
    IF list = <<>> THEN <<>>
    ELSE (IF strip(list[1]) = <<>> THEN <<>> ELSE <<list[1]>>) \o non_blank(Tail(list))

\* str.replace(old, new): every non-overlapping occurrence, left to right
RECURSIVE str_replace(_, _, _)
str_replace(s, old, new) ==
    LET p == IF old = <<>> THEN -1 ELSE Find(s, old, 0)
    IN  IF p = -1 THEN s
        ELSE Slice(s, 0, p) \o new
                 \o str_replace(Slice(s, p + Len(old), Len(s)), old, new)

-----------------------------------------------------------------------------
(* Fixed text of the format                                                *)

HeroPrefix == <<"\"", "n", "p", "c", "_", "d", "o", "t", "a", "_", "h", "e", "r", "o", "_">>

AliasKey == <<"\"", "N", "a", "m", "e", "A", "l", "i", "a", "s", "e", "s", "\"">>

\* rf'"npc_dota_hero_{re.escape(hero_name)}"'
hero_pattern(hero_name) == HeroPrefix \o hero_name \o <<"\"">>

-----------------------------------------------------------------------------
(* extract_hero_section                                                    *)

\* the two distances of the locator: 100000 characters of scan and 1000
\* characters of recovery search.  The variable limits holds the pair the
\* locator runs with: these two in Spec, the scaled pair in SpecScaled.
ScanLimit == 100000

RecoveryWindow == 1000

MinSectionLen == 50

None == [ok |-> FALSE, start_pos |-> 0, end_pos |-> 0]

\* the while loop that tracks nested braces
RECURSIVE scan_braces(_, _, _, _, _)
scan_braces(text, pos, brace_count, opening_brace_pos, max_length) ==
    IF brace_count > 0 /\ pos < Len(text) /\ pos - opening_brace_pos < max_length
    THEN LET char == At(text, pos)
         IN  scan_braces(text, pos + 1,
                         IF char = "{" THEN brace_count + 1
                         ELSE IF char = "}" THEN brace_count - 1
                         ELSE brace_count,
                         opening_brace_pos, max_length)
    ELSE [pos |-> pos, brace_count |-> brace_count]

\* the validations on the extracted text: an empty set means valid
validation_errors(hero_section) ==
    (IF strip(hero_section) # <<>> /\ strip(hero_section)[Len(strip(hero_section))] = "}"
     THEN {} ELSE {"no closing brace"})
    \cup (IF Count(hero_section, "{") # Count(hero_section, "}")
          THEN {"unbalanced braces"} ELSE {})
    \cup (IF Len(hero_section) < MinSectionLen THEN {"short"} ELSE {})

\* the end position of the section after the scan, -1 when it cannot be resolved
section_end(text, scanned) ==
    IF scanned.brace_count # 0
    THEN IF scanned.brace_count > 0
         THEN LET recovery_pos == Find(text, <<"}", "}">>, scanned.pos)
              IN  IF recovery_pos # -1 /\ recovery_pos - scanned.pos < limits.window
                  THEN recovery_pos + 2
                  ELSE -1
         ELSE -1
    ELSE scanned.pos

\* the section is text[start_pos:end_pos]; None when nothing valid is found
extract_hero_section(text, hero_name) ==
    LET start_pos == Find(text, hero_pattern(hero_name), 0)
        opening_brace_pos == IF start_pos = -1 THEN -1 ELSE Find(text, <<"{">>, start_pos)
    IN  IF start_pos = -1 \/ opening_brace_pos = -1 THEN None
        ELSE LET max_length == IF limits.scan < Len(text) - opening_brace_pos
                               THEN limits.scan ELSE Len(text) - opening_brace_pos
                 scanned == scan_braces(text, opening_brace_pos + 1, 1,
                                        opening_brace_pos, max_length)
                 end_pos == section_end(text, scanned)
             IN  IF end_pos = -1 THEN None
                 ELSE IF validation_errors(Slice(text, start_pos, end_pos)) # {} THEN None
                 ELSE [ok |-> TRUE, start_pos |-> start_pos, end_pos |-> end_pos]

-----------------------------------------------------------------------------
(* The regular expressions of modify_aliases                               *)

NoMatch == [ok |-> FALSE, start |-> 0, end |-> 0, group |-> <<>>]

\* r'"NameAliases"\s+"([^"]*)"' tried at position p: the key, one or more
\* whitespace characters, a quote, the value up to the next quote
alias_match_at(s, p) ==
    LET a == p + Len(AliasKey)
        inked == {q \in a..(Len(s) - 1) : ~IsSpace(At(s, q))}
        k == IF inked = {} THEN -1 ELSE SetMin(inked)
        closers == {q \in (k + 1)..(Len(s) - 1) : At(s, q) = "\""}
    IN  IF /\ p + Len(AliasKey) <= Len(s)
           /\ At(s, p) = "\""
           /\ Slice(s, p, a) = AliasKey
           /\ k > a
           /\ At(s, k) = "\""
           /\ closers # {}
        THEN [ok |-> TRUE, start |-> p, end |-> SetMin(closers) + 1,
              group |-> Slice(s, k + 1, SetMin(closers))]
        ELSE NoMatch

\* re.search(r'"NameAliases"\s+"([^"]*)"', s): the leftmost match
name_aliases_match(s) ==
    LET hits == {p \in 0..(Len(s) - 1) : alias_match_at(s, p).ok}
    IN  IF hits = {} THEN NoMatch ELSE alias_match_at(s, SetMin(hits))

\* sub_name_aliases with a tab put in front of every replacement
RECURSIVE sub_name_aliases_reindented(_, _)
sub_name_aliases_reindented(s, repl) ==
    LET m == name_aliases_match(s)
    IN  IF ~m.ok THEN s
        ELSE Slice(s, 0, m.start) \o <<"\t">> \o repl
                 \o sub_name_aliases_reindented(Slice(s, m.end, Len(s)), repl)

\* re.sub(r'"NameAliases"\s+"([^"]*)"', repl, s): every match is replaced
RECURSIVE sub_name_aliases(_, _)
sub_name_aliases(s, repl) ==
    LET m == name_aliases_match(s)
    IN  IF ~m.ok THEN s
        ELSE Slice(s, 0, m.start) \o repl
                 \o sub_name_aliases(Slice(s, m.end, Len(s)), repl)

\* r'((?:"npc_dota_hero_[^"]*"[\s\S]*?))(}})' tried at position p: a quoted
\* hero token, then the nearest two adjacent closing braces after it
insert_match_at(s, p) ==
    LET a == p + Len(HeroPrefix)
        closers == {q \in a..(Len(s) - 1) : At(s, q) = "\""}
        q0 == IF closers = {} THEN -1 ELSE SetMin(closers)
        pair == IF q0 = -1 THEN -1 ELSE Find(s, <<"}", "}">>, q0 + 1)
    IN  IF /\ a <= Len(s)
           /\ At(s, p) = "\""
           /\ Slice(s, p, a) = HeroPrefix
           /\ pair # -1
        THEN [ok |-> TRUE, start |-> p, end |-> pair + 2, group |-> Slice(s, p, pair)]
        ELSE NoMatch

insert_match(s) ==
    LET hits == {p \in 0..(Len(s) - 1) : insert_match_at(s, p).ok}
    IN  IF hits = {} THEN NoMatch ELSE insert_match_at(s, SetMin(hits))

\* re.sub of the insert pattern with '\1\t"NameAliases" "<aliases_str>"\n\t\2'
RECURSIVE sub_insert(_, _)
sub_insert(s, aliases_str) ==
    LET m == insert_match(s)
    IN  IF ~m.ok THEN s
        ELSE Slice(s, 0, m.start) \o m.group
                 \o <<"\t">> \o AliasKey \o <<" ", "\"">> \o aliases_str \o <<"\"", "\n", "\t">>
                 \o <<"}", "}">>
                 \o sub_insert(Slice(s, m.end, Len(s)), aliases_str)

\* re.search(r'"npc_dota_hero_\w+"', s) finds something
has_hero_name(s) ==
    \E p \in 0..(Len(s) - 1) :
        /\ p + Len(HeroPrefix) <= Len(s)
        /\ At(s, p) = "\""
        /\ Slice(s, p, p + Len(HeroPrefix)) = HeroPrefix
        /\ \E q \in (p + Len(HeroPrefix) + 1)..(Len(s) - 1) :
              /\ At(s, q) = "\""
              /\ \A r \in (p + Len(HeroPrefix))..(q - 1) : IsWord(At(s, r))

-----------------------------------------------------------------------------
(* The merge of modify_aliases                                             *)

\* the existing value split into aliases: on ';' when it holds one, else on
\* whitespace when the stripped value holds a space, else a single alias
existing_aliases(existing_aliases_str) ==
    IF Find(existing_aliases_str, <<";">>, 0) # -1
    THEN LET parts == split_semicolon(existing_aliases_str)
         IN  [k \in 1..Len(parts) |-> strip(parts[k])]
    ELSE IF Find(strip(existing_aliases_str), <<" ">>, 0) # -1
    THEN split_whitespace(existing_aliases_str)
    ELSE <<strip(existing_aliases_str)>>

\* any(existing.strip().lower() == alias.strip().lower() for existing in list)
already_exists(list, alias) ==
    \E k \in 1..Len(list) : lower(strip(list[k])) = lower(strip(alias))

\* add_aliases with the comparison made case-sensitive (.lower() forgotten)
RECURSIVE add_aliases_case_sensitive(_, _)
add_aliases_case_sensitive(all_aliases, aliases) ==
    IF aliases = <<>> THEN all_aliases
    ELSE IF \E k \in 1..Len(all_aliases) : strip(all_aliases[k]) = strip(Head(aliases))
         THEN add_aliases_case_sensitive(all_aliases, Tail(aliases))
         ELSE add_aliases_case_sensitive(Append(all_aliases, Head(aliases)), Tail(aliases))

\* the loop that appends each alias not yet in the list
RECURSIVE add_aliases(_, _)
add_aliases(all_aliases, aliases) ==
    IF aliases = <<>> THEN all_aliases
    ELSE IF already_exists(all_aliases, Head(aliases))
         THEN add_aliases(all_aliases, Tail(aliases))
         ELSE add_aliases(Append(all_aliases, Head(aliases)), Tail(aliases))

\* the logger.info line of each alias, in order: Added or Skipped
RECURSIVE alias_events(_, _, _)
alias_events(all_aliases, aliases, hero_name) ==
    IF aliases = <<>> THEN <<>>
    ELSE IF already_exists(all_aliases, Head(aliases))
         THEN <<[level |-> "info", event |-> "skipped", hero |-> hero_name,
                 alias |-> Head(aliases)]>>
                  \o alias_events(all_aliases, Tail(aliases), hero_name)
         ELSE <<[level |-> "info", event |-> "added", hero |-> hero_name,
                 alias |-> Head(aliases)]>>
                  \o alias_events(Append(all_aliases, Head(aliases)), Tail(aliases), hero_name)

\* the aliases the merge starts from: the existing ones without empty entries,
\* or nothing when the section has no declaration
starting_aliases(hero_section) ==
    IF name_aliases_match(hero_section).ok
    THEN non_blank(existing_aliases(name_aliases_match(hero_section).group))
    ELSE <<>>

\* new_aliases_str / aliases_str
joined_aliases(hero_section, aliases) ==
    join(non_blank(add_aliases(starting_aliases(hero_section), aliases)), <<";">>)

\* the rewritten section
new_hero_section(hero_section, aliases) ==
    IF name_aliases_match(hero_section).ok
    THEN sub_name_aliases(hero_section,
             AliasKey \o <<" ", "\"">> \o joined_aliases(hero_section, aliases) \o <<"\"">>)
    ELSE sub_insert(hero_section, joined_aliases(hero_section, aliases))

\* updated_content by str.replace of the section text wherever it occurs
updated_content_replace_all(text, hero_name, hero_section, new_section) ==
    IF hero_section = new_section THEN text
    ELSE str_replace(text, hero_section, new_section)

\* updated_content with the start taken from the file as it was read, not
\* from the text as it stands
updated_content_stale_start(text, hero_name, hero_section, new_section) ==
    IF hero_section = new_section THEN text
    ELSE LET start_pos == Find(backup, hero_pattern(hero_name), 0)
         IN  Slice(text, 0, start_pos) \o new_section
                 \o Slice(text, start_pos + Len(hero_section), Len(text))

\* the update of content with the modified section
updated_content(text, hero_name, hero_section, new_section) ==
    IF hero_section = new_section THEN text
    ELSE LET start_pos == Find(text, hero_pattern(hero_name), 0)
             check == extract_hero_section(text, hero_name)
         IN  IF start_pos # -1
                /\ check.ok
                /\ Slice(text, check.start_pos, check.end_pos) = hero_section
             THEN Slice(text, 0, start_pos) \o new_section
                      \o Slice(text, start_pos + Len(hero_section), Len(text))
             ELSE str_replace(text, hero_section, new_section)

-----------------------------------------------------------------------------
(* Input data: npc_heroes.txt documents and alias.yaml configurations      *)

MaxRuns == 2

Axe == <<"a", "x", "e">>

Lina == <<"l", "i", "n", "a">>

Zeus == <<"z", "e", "u", "s">>

PathKey == <<"p", "a", "t", "h">>

PathValue == <<"m", "o", "d", "s">>

Fast == <<"F", "a", "s", "t">>

fast == <<"f", "a", "s", "t">>

Quick == <<"Q", "u", "i", "c", "k">>

Alpha == <<"A", "l", "p", "h", "a">>

alpha == <<"a", "l", "p", "h", "a">>

Beta == <<"B", "e", "t", "a">>

beta == <<"b", "e", "t", "a">>

Gamma == <<"G", "a", "m", "m", "a">>

LetterB == <<"b">>

LetterC == <<"C">>

PaddedX == <<" ", "x">>

ValAlphaBeta == <<"A", "l", "p", "h", "a", ";", "B", "e", "t", "a">>

ValComma == <<"A", ",", "B">>

ValRagged == <<"A", "l", "p", "h", "a", ";", " ", "B", "e", "t", "a", ";">>

ValDup == <<"A", ";", "a">>

ValSpaced == <<"A", "l", "p", "h", "a", " ", "B", "e", "t", "a">>

ValSingle == <<"x">>

Header == <<"\"", "D", "O", "T", "A", "H", "e", "r", "o", "e", "s", "\"", "\n", "{", "\n">>

Footer == <<"}", "\n">>

OpenLine == <<"\t", "{", "\n">>

CloseLine == <<"\t", "}", "\n">>

BaseClassLine == <<"\t", "\t", "\"", "B", "a", "s", "e", "C", "l", "a", "s", "s", "\"", "\t",
                   "\"", "n", "p", "c", "_", "d", "o", "t", "a", "_", "h", "e", "r", "o", "_",
                   "b", "a", "s", "e", "\"", "\n">>

HeroIDLine == <<"\t", "\t", "\"", "H", "e", "r", "o", "I", "D", "\"", "\t", "\"", "2", "\"", "\n">>

RivalLine == <<"\t", "\t", "\"", "R", "i", "v", "a", "l", "\"", "\t",
               "\"", "n", "p", "c", "_", "d", "o", "t", "a", "_", "h", "e", "r", "o", "_",
               "l", "i", "n", "a", "\"", "\n">>

\* a nested sub-block whose closing brace is on a line of its own
FacetsSpread == <<"\t", "\t", "\"", "F", "a", "c", "e", "t", "s", "\"", "\n",
                  "\t", "\t", "{", "\n",
                  "\t", "\t", "\t", "\"", "f", "\"", "\t", "\"", "1", "\"", "\n",
                  "\t", "\t", "}", "\n">>

\* a nested sub-block on one line, closed together with the hero block: '}}'
FacetsTight == <<"\t", "\t", "\"", "F", "a", "c", "e", "t", "s", "\"", "\t", "{",
                 "\"", "f", "\"", "\t", "\"", "1", "\"", "}", "}", "\n">>

NameLine(hero_name) == <<"\t">> \o hero_pattern(hero_name) \o <<"\n">>

\* a declaration line: two tabs, the key, the gap, the quoted value
AliasLine(gap, value) ==
    <<"\t", "\t">> \o AliasKey \o gap \o <<"\"">> \o value \o <<"\"", "\n">>

Block(hero_name, body) == NameLine(hero_name) \o OpenLine \o body

ExistingValues == {ValAlphaBeta, ValComma, ValRagged, ValDup, ValSpaced, ValSingle}

\* the text of the axe block after its opening line, closing brace included
AxeBodies ==
    {BaseClassLine \o CloseLine,
     BaseClassLine \o FacetsSpread \o CloseLine,
     BaseClassLine \o FacetsTight,
     BaseClassLine \o RivalLine \o CloseLine,
     BaseClassLine \o AliasLine(<<"\t">>, ValAlphaBeta) \o HeroIDLine
         \o AliasLine(<<"\t">>, ValSingle) \o CloseLine,
     BaseClassLine \o AliasLine(<<" ">>, ValAlphaBeta) \o CloseLine,
     BaseClassLine \o AliasLine(<<"\t", "\t">>, ValAlphaBeta) \o CloseLine}
    \cup {BaseClassLine \o AliasLine(<<"\t">>, v) \o CloseLine : v \in ExistingValues}

LinaBodies ==
    {BaseClassLine \o CloseLine,
     HeroIDLine \o CloseLine,
     BaseClassLine \o AliasLine(<<" ">>, ValAlphaBeta) \o CloseLine}

Document(a, l) == Header \o Block(Axe, a) \o Block(Lina, l) \o Footer

\* every axe block beside a plain lina block, and every lina block beside an
\* axe block without and with a declaration
Documents ==
    {Document(a, BaseClassLine \o CloseLine) : a \in AxeBodies}
    \cup {Document(a, l) :
              a \in {BaseClassLine \o CloseLine,
                     BaseClassLine \o AliasLine(<<" ">>, ValAlphaBeta) \o CloseLine},
              l \in LinaBodies}

AliasLists ==
    {<<Fast, fast, Quick>>, <<beta, Gamma>>, <<LetterB>>, <<LetterC>>,
     <<Alpha>>, <<Beta, alpha>>, <<PaddedX>>}

Entry(key, value) == [key |-> key, value |-> value]

\* 'axe:' with nothing after it: yaml gives None, which is not a list
NoneAliases == <<<<"None">>>>

\* an entry of an alias list that is a number, not a string
NotAString == <<"int">>

\* alias.yaml in mapping order: two hero names and the 'path' key
Configs ==
    {<<Entry(Axe, l), Entry(PathKey, PathValue), Entry(Lina, <<Fast, fast, Quick>>)>> :
        l \in AliasLists}
    \cup {<<Entry(Zeus, <<Fast>>), Entry(PathKey, PathValue), Entry(Axe, l)>> :
              l \in {<<Fast, fast, Quick>>, <<beta, Gamma>>}}
    \cup {<<Entry(Lina, <<beta, Gamma>>), Entry(Axe, <<LetterC>>),
             Entry(PathKey, PathValue)>>}

\* a hero name with a character outside \w
AntiMage == <<"a", "-", "m">>

\* a nested sub-block that holds a declaration of its own
FacetsAlias == <<"\t", "\t", "\"", "F", "a", "c", "e", "t", "s", "\"", "\n",
                 "\t", "\t", "{", "\n">>
               \o <<"\t">> \o AliasLine(<<"\t">>, ValSingle)
               \o <<"\t", "\t", "}", "\n">>

PlainBody == BaseClassLine \o CloseLine

AliasBody == BaseClassLine \o AliasLine(<<" ">>, ValSingle) \o CloseLine

\* the hero's quoted name as a value inside the axe block, ahead of a nested
\* sub-block, with the hero's own block further down
RivalDocument ==
    Header \o Block(Axe, BaseClassLine \o RivalLine \o FacetsAlias \o CloseLine)
           \o Block(Lina, AliasBody) \o Footer

\* two blocks of the same name
TwinDocuments ==
    {Header \o Block(Axe, a) \o Block(Lina, PlainBody) \o Block(Axe, b) \o Footer :
        a \in {AliasBody, BaseClassLine \o FacetsTight},
        b \in {AliasBody, BaseClassLine \o FacetsTight}}

\* a block whose name line is the only "npc_dota_hero_..." text in it
AntiMageDocument ==
    Header \o Block(AntiMage, HeroIDLine \o HeroIDLine \o CloseLine)
           \o Block(Lina, AliasBody) \o Footer

\* a sub-block nested two deep and closed by '}}' ahead of the BaseClass
\* line, in a block that ends in '}}' as well
DeepLine == <<"\t", "\t", "\"", "A", "\"", "\t", "{", "\"", "B", "\"", "\t", "{",
              "\"", "f", "\"", "\t", "\"", "1", "\"", "}", "}", "\n">>

DeepDocument ==
    Header \o Block(Axe, DeepLine \o BaseClassLine \o FacetsTight)
           \o Block(Lina, AliasBody) \o Footer

\* the pairs of document and configuration a run starts from
Inputs ==
    (Documents \X Configs)
    \cup {<<DeepDocument,
             <<Entry(Axe, <<ValSingle>>), Entry(PathKey, PathValue),
               Entry(Lina, <<Fast>>)>>>>}
    \cup {<<RivalDocument, c>> :
              c \in {<<Entry(Lina, <<LetterC>>), Entry(PathKey, PathValue),
                       Entry(Axe, <<Fast>>)>>,
                     <<Entry(Axe, <<Fast>>), Entry(PathKey, PathValue),
                       Entry(Lina, <<LetterC>>)>>}}
    \cup {<<d, <<Entry(Axe, l), Entry(PathKey, PathValue), Entry(Lina, <<Fast>>)>>>> :
              d \in TwinDocuments, l \in {<<LetterC>>, <<ValSingle>>}}
    \cup {<<AntiMageDocument,
             <<Entry(AntiMage, <<Fast>>), Entry(PathKey, PathValue),
               Entry(Lina, <<LetterC>>)>>>>}
    \cup {<<Document(a, PlainBody),
             <<Entry(Zeus, NoneAliases), Entry(Axe, l), Entry(PathKey, PathValue),
               Entry(Lina, <<LetterC>>)>>>> :
              a \in {PlainBody, AliasBody, BaseClassLine \o FacetsTight},
              l \in {NoneAliases, <<Fast, NotAString>>, <<NotAString>>}}

\* the distances the locator runs with in SpecScaled
ScanBound == 80

WindowBound == 100

\* blocks as long as the scaled scan distance
ScaledDocuments ==
    {\* the scan stops inside the nested sub-block, '}}' follows
     Header \o Block(Axe, BaseClassLine \o HeroIDLine \o HeroIDLine \o FacetsTight)
            \o Block(Lina, PlainBody) \o Footer,
     \* the scan stops before the block's closing brace, the next block ends in '}}'
     Header \o Block(Axe, BaseClassLine \o HeroIDLine \o HeroIDLine \o HeroIDLine
                              \o CloseLine)
            \o Block(Lina, AliasLine(<<" ">>, ValSingle) \o FacetsTight) \o Footer,
     Header \o Block(Axe, BaseClassLine \o HeroIDLine \o HeroIDLine \o HeroIDLine
                              \o CloseLine)
            \o Block(Lina, BaseClassLine \o FacetsTight) \o Footer,
     \* the scan stops before the block's closing brace, no '}}' follows
     Header \o Block(Axe, BaseClassLine \o HeroIDLine \o HeroIDLine \o HeroIDLine
                              \o CloseLine)
            \o Block(Lina, PlainBody) \o Footer,
     \* the text ends before the block is closed
     Header \o Block(Lina, PlainBody) \o Block(Axe, BaseClassLine
                                                      \o AliasLine(<<" ">>, ValSingle)),
     \* short blocks
     Header \o Block(Axe, AliasBody) \o Block(Lina, PlainBody) \o Footer,
     Header \o Block(Axe, BaseClassLine \o FacetsTight) \o Block(Lina, AliasBody)
            \o Footer}

ScaledConfigs ==
    {<<Entry(Axe, l), Entry(PathKey, PathValue), Entry(Lina, <<LetterC>>)>> :
        l \in {<<Fast>>, <<ValSingle>>, <<Fast, fast, Quick>>}}
    \cup {<<Entry(Lina, <<Fast>>), Entry(Zeus, <<Fast>>), Entry(Axe, <<LetterC>>),
             Entry(PathKey, PathValue)>>}

\* installation paths and what find_dota_path consults
NoPath == "None"

SteamLower == "steam/steamapps/common/dota 2 beta"

SteamUpper == "steam/SteamApps/common/dota 2 beta"

LibraryOne == "lib1/steamapps/common/dota 2 beta"

LibraryTwo == "lib2/steamapps/common/dota 2 beta"

GivenPath == "given/dota 2 beta"

ShellPath == "shell/dota 2 beta"

\* the Steam registry key, the libraries of libraryfolders.vdf, and the
\* candidate paths that exist on disk with game/dota inside
Registries ==
    [key : BOOLEAN,
     libraries : {<<>>, <<LibraryOne>>, <<LibraryOne, LibraryTwo>>},
     present : SUBSET {SteamLower, SteamUpper, LibraryOne, LibraryTwo, GivenPath}]

UsualRegistry == [key |-> TRUE, libraries |-> <<>>, present |-> {SteamLower}]

-----------------------------------------------------------------------------
(* find_dota_path                                                          *)

potential_paths(reg) == <<SteamLower, SteamUpper>> \o reg.libraries

\* for path in potential_paths: the first that exists, NoPath when none does
first_existing(paths, present) ==
    IF \E i \in 1..Len(paths) : paths[i] \in present
    THEN paths[SetMin({i \in 1..Len(paths) : paths[i] \in present})]
    ELSE NoPath

-----------------------------------------------------------------------------
(* run() and modify_aliases as a state machine                             *)
(*   file      npc_heroes.txt in the extract directory                     *)
(*   backup    npc_heroes.txt.bak                                          *)
(*   content   the text held in memory                                     *)
(*   config    self.config, in mapping order                               *)
(*   idx       the entry of config the loop is at                          *)
(*   pc        main, find, idle, loop, done, created, placed; failed when  *)
(*             an exception left a step, exited after sys.exit(1)          *)
(*   log       the logger's lines of the current call                      *)
(*   prev      content before the latest loop iteration                    *)
(*   runs      how many times modify_aliases was called                    *)
(*   firstOut  the file as the first call wrote it                         *)
(*   limits    the scan and recovery distances of the locator              *)
(*   args      the --dota-path argument, NoPath when not given             *)
(*   environ   os.environ["DOTA2_PATH"], NoPath when not set               *)
(*   registry  the Steam registry key, library folders and existing paths  *)
(*   dota_path self.dota_path                                              *)
(*   vpk       the text create_vpk packed, empty before                    *)
(*   placed    the text place_vpk put into the game directory              *)
(*   exit_status  the status of sys.exit, 0 while run() has not exited     *)

Line(level, event, hero_name, alias) ==
    [level |-> level, event |-> event, hero |-> hero_name, alias |-> alias]

\* the state __main__ starts from, for given inputs
InitWith(inputs, distances, arguments, environment, registries) ==
    /\ \E input \in inputs : file = input[1] /\ config = input[2]
    /\ backup = <<>>
    /\ content = <<>>
    /\ idx = 0
    /\ pc = "main"
    /\ log = <<>>
    /\ prev = <<>>
    /\ runs = 0
    /\ firstOut = <<>>
    /\ limits = distances
    /\ args \in arguments
    /\ environ \in environment
    /\ registry \in registries
    /\ dota_path = NoPath
    /\ vpk = <<>>
    /\ placed = <<>>
    /\ exit_status = 0

\* a file that does not exist
NoFile == <<"absent">>

\* no response yet
NoResponse == [status_code |-> 0, body |-> <<>>, sent |-> <<>>, error |-> FALSE,
               ranged |-> FALSE]

\* download_file is not running
DownloadIdle ==
    /\ temp_file = NoFile
    /\ dest_file = NoFile
    /\ resume_download = FALSE
    /\ downloaded_bytes = 0
    /\ expected_size = 0
    /\ range_header = FALSE
    /\ response = NoResponse
    /\ file_mode = "none"
    /\ dl_pc = "idle"

\* last_exception = None
NoException == "None"

\* retry_with_backoff is not running
RetryIdle ==
    /\ max_retries = 0
    /\ initial_delay = 0
    /\ attempt = 0
    /\ last_exception = NoException
    /\ calls = <<>>
    /\ sleeps = <<>>
    /\ rt_pc = "idle"
    /\ rt_result = "none"

\* get_latest_github_release_asset is not running
AssetIdle ==
    /\ asset_pattern = <<>>
    /\ assets = <<>>
    /\ chosen_asset = 0
    /\ as_pc = "idle"

\* run() is not followed step by step
RunIdle ==
    /\ run_pc = "idle"
    /\ called = <<>>
    /\ raising = {}
    /\ temp_dir = TRUE
    /\ run_exit = -1

\* place_vpk is not followed step by step
PlaceIdle ==
    /\ target_vpk = NoFile
    /\ backup_path = NoFile
    /\ source_vpk = NoFile
    /\ previous_vpk = NoFile
    /\ pv_pc = "idle"

\* the single functions are not running
UtilsIdle == DownloadIdle /\ RetryIdle /\ AssetIdle /\ RunIdle /\ PlaceIdle

Init ==
    /\ InitWith(Inputs, [scan |-> ScanLimit, window |-> RecoveryWindow],
                {NoPath}, {NoPath}, {UsualRegistry})
    /\ UtilsIdle

\* __main__: --dota-path is stored in the environment
Main ==
    /\ pc = "main"
    /\ environ' = IF args # NoPath THEN args ELSE environ
    /\ pc' = "find"
    /\ UNCHANGED <<docVars, limits, utilVars, args, registry, dota_path, tailVars>>

\* find_dota_path: the registry and the library folders are searched;
\* FileNotFoundError when no candidate exists
FindDotaPath ==
    /\ pc = "find"
    /\ LET path == IF registry.key
                   THEN first_existing(potential_paths(registry), registry.present)
                   ELSE NoPath
       IN  IF path # NoPath
           THEN /\ dota_path' = path
                /\ pc' = "idle"
           ELSE /\ dota_path' = dota_path
                /\ pc' = "failed"
    /\ UNCHANGED <<docVars, limits, utilVars, args, environ, registry, tailVars>>

\* modify_aliases is entered: the file is read and backed up
ReadFile ==
    /\ pc \in {"idle", "done"}
    /\ runs < MaxRuns
    /\ content' = file
    /\ backup' = file
    /\ idx' = 1
    /\ pc' = "loop"
    /\ log' = <<Line("info", "modifying", <<>>, <<>>)>>
    /\ prev' = file
    /\ runs' = runs + 1
    /\ UNCHANGED <<file, config, firstOut>>
    /\ UNCHANGED <<limits, utilVars, pathVars, tailVars>>

\* for hero_name, aliases in self.config.items(): the 'path' key is skipped
SkipPath ==
    /\ pc = "loop"
    /\ idx <= Len(config)
    /\ config[idx].key = PathKey
    /\ idx' = idx + 1
    /\ prev' = content
    /\ UNCHANGED <<file, backup, content, config, pc, log, runs, firstOut>>
    /\ UNCHANGED <<limits, utilVars, pathVars, tailVars>>

\* SkipHero with the missing hero raised as an error instead of skipped
SkipHeroRaises ==
    /\ pc = "loop"
    /\ idx <= Len(config)
    /\ config[idx].key # PathKey
    /\ ~extract_hero_section(content, config[idx].key).ok
    /\ pc' = "failed"
    /\ prev' = content
    /\ log' = log \o <<Line("info", "processing", config[idx].key, <<>>),
                       Line("error", "missing", config[idx].key, <<>>)>>
    /\ UNCHANGED <<file, backup, content, config, idx, runs, firstOut>>
    /\ UNCHANGED <<limits, utilVars, pathVars, tailVars>>

\* extract_hero_section returned None: warning, continue
SkipHero ==
    /\ pc = "loop"
    /\ idx <= Len(config)
    /\ config[idx].key # PathKey
    /\ ~extract_hero_section(content, config[idx].key).ok
    /\ idx' = idx + 1
    /\ prev' = content
    /\ log' = log \o <<Line("info", "processing", config[idx].key, <<>>),
                       Line("warning", "skipping", config[idx].key, <<>>)>>
    /\ UNCHANGED <<file, backup, content, config, pc, runs, firstOut>>
    /\ UNCHANGED <<limits, utilVars, pathVars, tailVars>>

\* the aliases iterated before 'for alias in aliases' or alias.strip() raises
RECURSIVE string_prefix(_)
string_prefix(aliases) ==
    IF aliases = <<>> \/ Head(aliases) = NotAString THEN <<>>
    ELSE <<Head(aliases)>> \o string_prefix(Tail(aliases))

\* TypeError for a missing list, AttributeError for an entry that is no string
raises_on_aliases(aliases) ==
    aliases = NoneAliases \/ string_prefix(aliases) # aliases

\* the section was found: validate it, merge the aliases, update content
EditHero ==
    /\ pc = "loop"
    /\ idx <= Len(config)
    /\ config[idx].key # PathKey
    /\ extract_hero_section(content, config[idx].key).ok
    /\ LET hero_name == config[idx].key
           aliases == config[idx].value
           found == extract_hero_section(content, hero_name)
           hero_section == Slice(content, found.start_pos, found.end_pos)
       IN  IF \/ ~has_hero_name(hero_section)
              \/ Count(hero_section, "{") # Count(hero_section, "}")
           THEN \* raise ValueError
                /\ pc' = "failed"
                /\ log' = log \o <<Line("info", "processing", hero_name, <<>>),
                                   Line("error", "invalid", hero_name, <<>>)>>
                /\ UNCHANGED <<content, idx>>
           ELSE IF raises_on_aliases(aliases)
           THEN \* TypeError or AttributeError inside the loop over the aliases
                /\ pc' = "failed"
                /\ log' = log \o <<Line("info", "processing", hero_name, <<>>)>>
                              \o (IF aliases = NoneAliases THEN <<>>
                                  ELSE alias_events(starting_aliases(hero_section),
                                                    string_prefix(aliases), hero_name))
                /\ UNCHANGED <<content, idx>>
           ELSE /\ content' = updated_content(content, hero_name, hero_section,
                                              new_hero_section(hero_section, aliases))
                /\ log' = log \o <<Line("info", "processing", hero_name, <<>>)>>
                              \o alias_events(starting_aliases(hero_section), aliases,
                                              hero_name)
                /\ idx' = idx + 1
                /\ pc' = pc
    /\ prev' = content
    /\ UNCHANGED <<file, backup, config, runs, firstOut>>
    /\ UNCHANGED <<limits, utilVars, pathVars, tailVars>>

\* after the loop the content is written back to the file
WriteFile ==
    /\ pc = "loop"
    /\ idx > Len(config)
    /\ file' = content
    /\ pc' = "done"
    /\ log' = Append(log, Line("info", "modified", <<>>, <<>>))
    /\ firstOut' = IF runs = 1 THEN content ELSE firstOut
    /\ UNCHANGED <<backup, content, config, idx, prev, runs>>
    /\ UNCHANGED <<limits, utilVars, pathVars, tailVars>>

\* WriteFile with the failure swallowed: the method returns normally
WriteFailsSilently ==
    /\ pc = "loop"
    /\ idx > Len(config)
    /\ \E left \in {file, <<>>} : file' = left
    /\ pc' = "done"
    /\ log' = Append(log, Line("error", "io", <<>>, <<>>))
    /\ UNCHANGED <<backup, content, config, idx, prev, runs, firstOut>>
    /\ UNCHANGED <<limits, utilVars, pathVars, tailVars>>

\* open(..., "w") or f.write raises: the file is left as it was or truncated,
\* and the exception leaves modify_aliases
WriteFails ==
    /\ pc = "loop"
    /\ idx > Len(config)
    /\ \E left \in {file, <<>>} : file' = left
    /\ pc' = "failed"
    /\ log' = Append(log, Line("error", "io", <<>>, <<>>))
    /\ UNCHANGED <<backup, content, config, idx, prev, runs, firstOut>>
    /\ UNCHANGED <<limits, utilVars, pathVars, tailVars>>

\* reading npc_heroes.txt or writing the .bak copy raises
ReadFails ==
    /\ pc \in {"idle", "done"}
    /\ runs < MaxRuns
    /\ \E read \in BOOLEAN :
          /\ content' = IF read THEN file ELSE content
          /\ backup' = IF read THEN <<>> ELSE backup
    /\ pc' = "failed"
    /\ log' = <<Line("info", "modifying", <<>>, <<>>), Line("error", "io", <<>>, <<>>)>>
    /\ runs' = runs + 1
    /\ UNCHANGED <<file, config, idx, prev, firstOut>>
    /\ UNCHANGED <<limits, utilVars, pathVars, tailVars>>

\* create_vpk packs the modified file
CreateVpk ==
    /\ pc = "done"
    /\ vpk' = file
    /\ pc' = "created"
    /\ UNCHANGED <<docVars, limits, utilVars, pathVars, placed, exit_status>>

\* place_vpk copies the package into the game directory
PlaceVpk ==
    /\ pc = "created"
    /\ placed' = vpk
    /\ pc' = "placed"
    /\ UNCHANGED <<docVars, limits, utilVars, pathVars, vpk, exit_status>>

\* run(): except Exception: logger.error, sys.exit(1)
ExitOnError ==
    /\ pc = "failed"
    /\ log' = Append(log, Line("error", "run", <<>>, <<>>))
    /\ exit_status' = 1
    /\ pc' = "exited"
    /\ UNCHANGED <<file, backup, content, config, idx, prev, runs, firstOut>>
    /\ UNCHANGED <<limits, utilVars, pathVars, vpk, placed>>

Next ==
    \/ Main
    \/ FindDotaPath
    \/ ReadFile
    \/ ReadFails
    \/ SkipPath
    \/ SkipHero
    \/ EditHero
    \/ WriteFile
    \/ WriteFails
    \/ CreateVpk
    \/ PlaceVpk
    \/ ExitOnError

Spec == Init /\ [][Next]_vars

\* the same program with the locator's distances scaled down to the length of
\* the documents, so that blocks longer than the scan distance occur
InitScaled ==
    /\ InitWith(ScaledDocuments \X ScaledConfigs,
                [scan |-> ScanBound, window |-> WindowBound],
                {NoPath}, {NoPath}, {UsualRegistry})
    /\ UtilsIdle

SpecScaled == InitScaled /\ [][Next]_vars

\* __main__ up to find_dota_path, over every argument, environment and registry
InitPath ==
    /\ InitWith({<<Document(PlainBody, PlainBody), <<Entry(PathKey, PathValue)>>>>},
                [scan |-> ScanLimit, window |-> RecoveryWindow],
                {NoPath, GivenPath}, {NoPath, ShellPath}, Registries)
    /\ UtilsIdle

NextPath ==
    \/ Main
    \/ FindDotaPath
    \/ ExitOnError

SpecPath == InitPath /\ [][NextPath]_vars

-----------------------------------------------------------------------------
(* utils.py: download_file                                                  *)

\* A file is the sequence of the pieces written to it; a piece stands for a
\* run of bytes received in one chunk, and PieceLen is the number of its bytes.
PieceLen(piece) ==
    CASE piece = "h" -> 60
      [] piece = "m" -> 40
      [] piece = "t" -> 1
      [] piece = "o" -> 101
      [] OTHER -> 1

\* Path.stat().st_size
RECURSIVE st_size(_)
st_size(f) ==
    IF f = NoFile \/ f = <<>> THEN 0 ELSE PieceLen(Head(f)) + st_size(Tail(f))

\* Path.exists()
exists(f) == f # NoFile

\* what the server holds at the url
Resource == <<"h", "m", "t">>

\* the .part files a call may find: none, an empty one, the first 60 or 100
\* bytes of the resource, all its 101 bytes, and 101 bytes of something else
Partials == {NoFile, <<>>, <<"h">>, <<"h", "m">>, Resource, <<"o">>}

\* a destination file of an earlier download
OldDest == <<"d">>

\* the body from byte n on
RECURSIVE BodyFrom(_, _)
BodyFrom(body, n) ==
    IF n <= 0 \/ body = <<>> THEN body
    ELSE BodyFrom(Tail(body), n - PieceLen(Head(body)))

\* the answers of the server to a GET: the status and the whole body
Answers(ranged, start) ==
    {<<200, Resource>>, <<200, <<>>>>, <<404, <<>>>>}
    \cup (IF ranged THEN {<<416, <<>>>>} ELSE {})
    \cup (IF ranged /\ start < st_size(Resource)
          THEN {<<206, BodyFrom(Resource, start)>>} ELSE {})

\* what a GET yields: an answer of which iter_content delivers a prefix, and
\* then ends or raises
Responses(ranged, start) ==
    UNION {{[status_code |-> a[1], body |-> SubSeq(a[2], 1, n),
             sent |-> SubSeq(a[2], 1, n), error |-> e, ranged |-> ranged] :
               n \in 0..Len(a[2]), e \in BOOLEAN} : a \in Answers(ranged, start)}

\* a call of download_file(url, file_path)
DownloadStart ==
    /\ temp_file \in Partials
    /\ dest_file \in {NoFile, OldDest}
    /\ resume_download = FALSE
    /\ downloaded_bytes = 0
    /\ expected_size = 0
    /\ range_header = FALSE
    /\ response = NoResponse
    /\ file_mode = "none"
    /\ dl_pc = "start"

\* what __main__ and the methods of Dota2AliasModifier work on
mainVars == <<docVars, pc, limits, pathVars, tailVars>>

otherVars == <<mainVars, retryVars, assetVars, runVars, placeVars>>

\* the partial download is looked for
CheckPartial ==
    /\ dl_pc = "start"
    /\ LET resume == exists(temp_file) /\ st_size(temp_file) > 0
       IN  /\ resume_download' = resume
           /\ downloaded_bytes' = IF resume THEN st_size(temp_file) ELSE 0
    /\ dl_pc' = "head"
    /\ UNCHANGED <<temp_file, dest_file, expected_size, range_header, response,
                   file_mode, otherVars>>

\* the HEAD request: the content length, or 0 when it fails or gives none
HeadRequest ==
    /\ dl_pc = "head"
    /\ \E size \in {0, st_size(Resource)} : expected_size' = size
    /\ dl_pc' = "get"
    /\ UNCHANGED <<temp_file, dest_file, resume_download, downloaded_bytes,
                   range_header, response, file_mode, otherVars>>

\* the GET request, with a Range header when resuming
GetRequest ==
    /\ dl_pc = "get"
    /\ range_header' = resume_download
    /\ \/ /\ \E r \in Responses(resume_download, downloaded_bytes) : response' = r
          /\ dl_pc' = "answered"
       \/ /\ response' = response
          /\ dl_pc' = "raise_request"
    /\ UNCHANGED <<temp_file, dest_file, resume_download, downloaded_bytes,
                   expected_size, file_mode, otherVars>>

\* RangeNotSatisfiable that goes on resuming after the second request
RangeNotSatisfiableKeepsMode ==
    /\ dl_pc = "answered"
    /\ response.status_code = 416
    /\ IF exists(temp_file) /\ expected_size = st_size(temp_file)
       THEN /\ dest_file' = temp_file
            /\ dl_pc' = "complete"
            /\ UNCHANGED <<resume_download, downloaded_bytes, range_header, response>>
       ELSE /\ UNCHANGED <<resume_download, downloaded_bytes>>
            /\ range_header' = FALSE
            /\ \/ /\ \E r \in Responses(FALSE, 0) : response' = r
                  /\ dl_pc' = "refetched"
               \/ /\ response' = response
                  /\ dl_pc' = "raise_request"
            /\ dest_file' = dest_file
    /\ UNCHANGED <<temp_file, expected_size, file_mode, otherVars>>

\* status 416: the partial file is published when it has the expected size,
\* otherwise the file is requested again without the Range header
RangeNotSatisfiable ==
    /\ dl_pc = "answered"
    /\ response.status_code = 416
    /\ IF exists(temp_file) /\ expected_size = st_size(temp_file)
       THEN /\ dest_file' = temp_file
            /\ dl_pc' = "complete"
            /\ UNCHANGED <<resume_download, downloaded_bytes, range_header, response>>
       ELSE /\ resume_download' = FALSE
            /\ downloaded_bytes' = 0
            /\ range_header' = FALSE
            /\ \/ /\ \E r \in Responses(FALSE, 0) : response' = r
                  /\ dl_pc' = "refetched"
               \/ /\ response' = response
                  /\ dl_pc' = "raise_request"
            /\ dest_file' = dest_file
    /\ UNCHANGED <<temp_file, expected_size, file_mode, otherVars>>

\* raise_for_status, the counter and the mode, and the .part file opened
OpenTemp ==
    /\ \/ dl_pc = "answered" /\ response.status_code # 416
       \/ dl_pc = "refetched"
    /\ IF response.status_code >= 400
       THEN /\ dl_pc' = "raise_status"
            /\ UNCHANGED <<temp_file, downloaded_bytes, file_mode>>
       ELSE /\ downloaded_bytes' =
                  IF resume_download /\ response.status_code = 206
                  THEN downloaded_bytes
                  ELSE IF resume_download THEN 0 ELSE downloaded_bytes
            /\ file_mode' = IF resume_download THEN "ab" ELSE "wb"
            /\ temp_file' = IF resume_download /\ exists(temp_file)
                            THEN temp_file ELSE <<>>
            /\ dl_pc' = "receive"
    /\ UNCHANGED <<dest_file, resume_download, expected_size, range_header,
                   response, otherVars>>

\* one chunk of iter_content is written
Receive ==
    /\ dl_pc = "receive"
    /\ response.body # <<>>
    /\ temp_file' = Append(temp_file, Head(response.body))
    /\ downloaded_bytes' = downloaded_bytes + PieceLen(Head(response.body))
    /\ response' = [response EXCEPT !.body = Tail(@)]
    /\ UNCHANGED <<dest_file, resume_download, expected_size, range_header,
                   file_mode, dl_pc, otherVars>>

\* iter_content raises
ReceiveFails ==
    /\ dl_pc = "receive"
    /\ response.body = <<>>
    /\ response.error
    /\ dl_pc' = "raise_receive"
    /\ UNCHANGED <<temp_file, dest_file, resume_download, downloaded_bytes,
                   expected_size, range_header, response, file_mode, otherVars>>

\* fewer than 99% of the expected bytes: expected_size * 0.99, in integers
too_few(downloaded, expected) ==
    /\ expected > 0
    /\ downloaded # expected
    /\ downloaded < expected
    /\ 100 * downloaded < 99 * expected

\* Verify without the check of the number of bytes
VerifyPublishesAnyway ==
    /\ dl_pc = "receive"
    /\ response.body = <<>>
    /\ ~response.error
    /\ dest_file' = temp_file
    /\ temp_file' = NoFile
    /\ dl_pc' = IF st_size(temp_file) = 0 THEN "raise_empty" ELSE "published"
    /\ UNCHANGED <<resume_download, downloaded_bytes, expected_size, range_header,
                   response, file_mode, otherVars>>

\* the loop has ended: the number of bytes is checked, the .part file is
\* renamed to the destination, and the destination is checked
Verify ==
    /\ dl_pc = "receive"
    /\ response.body = <<>>
    /\ ~response.error
    /\ IF too_few(downloaded_bytes, expected_size)
       THEN /\ dl_pc' = "incomplete"
            /\ UNCHANGED <<temp_file, dest_file>>
       ELSE /\ dest_file' = temp_file
            /\ temp_file' = NoFile
            /\ dl_pc' = IF st_size(temp_file) = 0 THEN "raise_empty" ELSE "published"
    /\ UNCHANGED <<resume_download, downloaded_bytes, expected_size, range_header,
                   response, file_mode, otherVars>>

InitDownload ==
    /\ InitWith({<<Document(PlainBody, PlainBody), <<Entry(PathKey, PathValue)>>>>},
                [scan |-> ScanLimit, window |-> RecoveryWindow],
                {NoPath}, {NoPath}, {UsualRegistry})
    /\ DownloadStart
    /\ RetryIdle
    /\ AssetIdle
    /\ RunIdle
    /\ PlaceIdle

NextDownload ==
    \/ CheckPartial
    \/ HeadRequest
    \/ GetRequest
    \/ RangeNotSatisfiable
    \/ OpenTemp
    \/ Receive
    \/ ReceiveFails
    \/ Verify

SpecDownload == InitDownload /\ [][NextDownload]_vars

-----------------------------------------------------------------------------
(* utils.py: retry_with_backoff                                             *)

MaxRetries == 3

\* the values initial_delay is called with
Delays == {1, 2, 5}

\* what a call of func does: it returns a value, or raises an Exception, or
\* raises a BaseException that 'except Exception' does not catch
Returns == {"r1", "r2"}

Exceptions == {"e1", "e2"}

Interrupt == "KeyboardInterrupt"

Outcomes == Returns \cup Exceptions \cup {Interrupt}

\* 2**attempt
RECURSIVE Pow2(_)
Pow2(k) == IF k = 0 THEN 1 ELSE 2 * Pow2(k - 1)

\* a call of retry_with_backoff(func, max_retries, initial_delay)
RetryStart ==
    /\ max_retries \in 0..MaxRetries
    /\ initial_delay \in Delays
    /\ attempt = 0
    /\ last_exception = NoException
    /\ calls = <<>>
    /\ sleeps = <<>>
    /\ rt_pc = "loop"
    /\ rt_result = "none"

\* one iteration of the loop: func is called; its value is returned, or its
\* exception is kept and the loop sleeps and goes on, or the loop is left
Attempt ==
    /\ rt_pc = "loop"
    /\ attempt < max_retries
    /\ \E outcome \in Outcomes :
          /\ calls' = Append(calls, outcome)
          /\ IF outcome \in Returns
             THEN /\ rt_result' = outcome
                  /\ rt_pc' = "returned"
                  /\ UNCHANGED <<attempt, last_exception, sleeps>>
             ELSE IF outcome = Interrupt
             THEN /\ rt_result' = outcome
                  /\ rt_pc' = "raised"
                  /\ UNCHANGED <<attempt, last_exception, sleeps>>
             ELSE /\ last_exception' = outcome
                  /\ IF attempt < max_retries - 1
                     THEN /\ sleeps' = Append(sleeps, initial_delay * Pow2(attempt))
                          /\ attempt' = attempt + 1
                          /\ rt_pc' = "loop"
                     ELSE /\ rt_pc' = "exhausted"
                          /\ UNCHANGED <<attempt, sleeps>>
                  /\ rt_result' = rt_result
    /\ UNCHANGED <<max_retries, initial_delay, mainVars, dlVars, assetVars, runVars, placeVars>>

\* raise last_exception, after the break or when range(max_retries) is empty;
\* raising None is a TypeError
RaiseLast ==
    /\ \/ rt_pc = "exhausted"
       \/ rt_pc = "loop" /\ attempt >= max_retries
    /\ rt_result' = IF last_exception = NoException THEN "TypeError"
                    ELSE last_exception
    /\ rt_pc' = "raised"
    /\ UNCHANGED <<max_retries, initial_delay, attempt, last_exception, calls,
                   sleeps, mainVars, dlVars, assetVars, runVars, placeVars>>

InitRetry ==
    /\ InitWith({<<Document(PlainBody, PlainBody), <<Entry(PathKey, PathValue)>>>>},
                [scan |-> ScanLimit, window |-> RecoveryWindow],
                {NoPath}, {NoPath}, {UsualRegistry})
    /\ DownloadIdle
    /\ RetryStart
    /\ AssetIdle
    /\ RunIdle
    /\ PlaceIdle

NextRetry ==
    \/ Attempt
    \/ RaiseLast

SpecRetry == InitRetry /\ [][NextRetry]_vars

-----------------------------------------------------------------------------
(* utils.py: get_latest_github_release_asset                                *)

\* the most assets a release has here
MaxAssets == 3

\* the patterns asked for
Patterns == {<<"c", "-", "w">>, <<"C", "-", "W">>}

\* the asset names of a release: the pattern in upper and in lower case, a
\* name that contains it, names with both, with one and with none of its parts
AssetNames ==
    {<<"C", "-", "W">>, <<"c", "-", "w">>, <<"x", ".", "c", "-", "w">>,
     <<"W", "_", "c">>, <<"c", "_", "c">>, <<"c", "_", "x">>, <<"z">>}

\* the lists of at most n asset names
RECURSIVE AssetLists(_)
AssetLists(n) ==
    IF n = 0 THEN {<<>>}
    ELSE AssetLists(n - 1)
             \cup {Append(l, a) : l \in {x \in AssetLists(n - 1) : Len(x) = n - 1},
                                  a \in AssetNames}

\* set(name.lower().replace("-", " ").replace("_", " ").split())
name_parts(name) ==
    LET parts == split_whitespace(
                     str_replace(str_replace(lower(name), <<"-">>, <<" ">>),
                                 <<"_">>, <<" ">>))
    IN  {parts[k] : k \in 1..Len(parts)}

\* matches[0]: the first position of the set, 0 when it is empty
FirstOf(S) == IF S = {} THEN 0 ELSE SetMin(S)

\* select_asset that takes the first asset any of the three rules accepts
select_asset_any_rule(names, pattern) ==
    LET asset_pattern_lower == lower(pattern)
    IN  FirstOf({k \in 1..Len(names) :
                    \/ asset_pattern_lower = lower(names[k])
                    \/ Find(lower(names[k]), asset_pattern_lower, 0) # -1
                    \/ Cardinality(name_parts(pattern) \cap name_parts(names[k])) >= 2})

\* the choice among the assets: the position of the chosen asset, 0 for none
select_asset(names, pattern) ==
    LET asset_pattern_lower == lower(pattern)
        exact_matches == {k \in 1..Len(names) : asset_pattern_lower = lower(names[k])}
        partial_matches ==
            {k \in 1..Len(names) :
                /\ asset_pattern_lower # lower(names[k])
                /\ Find(lower(names[k]), asset_pattern_lower, 0) # -1}
        fallback_matches ==
            {k \in 1..Len(names) :
                Cardinality(name_parts(pattern) \cap name_parts(names[k])) >= 2}
    IN  IF exact_matches # {} THEN FirstOf(exact_matches)
        ELSE IF partial_matches # {} THEN FirstOf(partial_matches)
        ELSE FirstOf(fallback_matches)

\* a call of get_latest_github_release_asset(owner, name, asset_pattern); the
\* release served by the API has the assets
AssetStart ==
    /\ asset_pattern \in Patterns
    /\ assets \in AssetLists(MaxAssets)
    /\ chosen_asset = 0
    /\ as_pc = "fetch"

\* retry_with_backoff(fetch_release_info): the release data, or RuntimeError
FetchReleaseInfo ==
    /\ as_pc = "fetch"
    /\ \E fetched \in BOOLEAN : as_pc' = IF fetched THEN "select" ELSE "raised"
    /\ UNCHANGED <<asset_pattern, assets, chosen_asset, mainVars, dlVars, retryVars, runVars, placeVars>>

\* the asset is chosen and its url returned, or RuntimeError is raised
SelectAsset ==
    /\ as_pc = "select"
    /\ chosen_asset' = select_asset(assets, asset_pattern)
    /\ as_pc' = IF chosen_asset' = 0 THEN "raised" ELSE "returned"
    /\ UNCHANGED <<asset_pattern, assets, mainVars, dlVars, retryVars, runVars, placeVars>>

InitAsset ==
    /\ InitWith({<<Document(PlainBody, PlainBody), <<Entry(PathKey, PathValue)>>>>},
                [scan |-> ScanLimit, window |-> RecoveryWindow],
                {NoPath}, {NoPath}, {UsualRegistry})
    /\ DownloadIdle
    /\ RetryIdle
    /\ AssetStart
    /\ RunIdle
    /\ PlaceIdle

NextAsset ==
    \/ FetchReleaseInfo
    \/ SelectAsset

SpecAsset == InitAsset /\ [][NextAsset]_vars

-----------------------------------------------------------------------------
(* run(): the order of the steps                                            *)

\* the methods run() calls, in the order of its body
Order == <<"load_config", "prepare_tools", "find_dota_path", "extract_npc_heroes",
           "modify_aliases", "create_vpk", "place_vpk">>

Methods == {Order[k] : k \in 1..Len(Order)}

\* run() is entered; any of the methods may be one that raises
RunStart ==
    /\ run_pc = "load_config"
    /\ called = <<>>
    /\ raising \in SUBSET Methods
    /\ temp_dir = TRUE
    /\ run_exit = -1

\* the statement after the call of the method
next_statement(method) ==
    IF method = Order[Len(Order)] THEN "finally"
    ELSE Order[1 + CHOOSE k \in 1..Len(Order) : Order[k] = method]

\* what a statement of the try block leaves: the method is called; it
\* returns and the next statement follows, or it raises and the except
\* clause follows
position_after(method) ==
    IF method \in raising THEN "except" ELSE next_statement(method)

\* self.load_config()
RunLoadConfig ==
    /\ run_pc = "load_config"
    /\ called' = Append(called, "load_config")
    /\ run_pc' = position_after("load_config")
    /\ run_exit' = run_exit
    /\ UNCHANGED <<raising, temp_dir, mainVars, dlVars, retryVars, assetVars,
                   placeVars>>

\* self.prepare_tools()
RunPrepareTools ==
    /\ run_pc = "prepare_tools"
    /\ called' = Append(called, "prepare_tools")
    /\ run_pc' = position_after("prepare_tools")
    /\ run_exit' = run_exit
    /\ UNCHANGED <<raising, temp_dir, mainVars, dlVars, retryVars, assetVars,
                   placeVars>>

\* self.find_dota_path()
RunFindDotaPath ==
    /\ run_pc = "find_dota_path"
    /\ called' = Append(called, "find_dota_path")
    /\ run_pc' = position_after("find_dota_path")
    /\ run_exit' = run_exit
    /\ UNCHANGED <<raising, temp_dir, mainVars, dlVars, retryVars, assetVars,
                   placeVars>>

\* self.extract_npc_heroes()
RunExtractNpcHeroes ==
    /\ run_pc = "extract_npc_heroes"
    /\ called' = Append(called, "extract_npc_heroes")
    /\ run_pc' = position_after("extract_npc_heroes")
    /\ run_exit' = run_exit
    /\ UNCHANGED <<raising, temp_dir, mainVars, dlVars, retryVars, assetVars,
                   placeVars>>

\* self.modify_aliases()
RunModifyAliases ==
    /\ run_pc = "modify_aliases"
    /\ called' = Append(called, "modify_aliases")
    /\ run_pc' = position_after("modify_aliases")
    /\ run_exit' = run_exit
    /\ UNCHANGED <<raising, temp_dir, mainVars, dlVars, retryVars, assetVars,
                   placeVars>>

\* self.create_vpk()
RunCreateVpk ==
    /\ run_pc = "create_vpk"
    /\ called' = Append(called, "create_vpk")
    /\ run_pc' = position_after("create_vpk")
    /\ run_exit' = run_exit
    /\ UNCHANGED <<raising, temp_dir, mainVars, dlVars, retryVars, assetVars,
                   placeVars>>

\* self.place_vpk(): the last statement of the try block
RunPlaceVpk ==
    /\ run_pc = "place_vpk"
    /\ called' = Append(called, "place_vpk")
    /\ run_pc' = position_after("place_vpk")
    /\ run_exit' = IF "place_vpk" \in raising THEN run_exit ELSE 0
    /\ UNCHANGED <<raising, temp_dir, mainVars, dlVars, retryVars, assetVars,
                   placeVars>>

\* RunExcept that ends the process at once
RunExceptExitsAtOnce ==
    /\ run_pc = "except"
    /\ run_exit' = 1
    /\ run_pc' = "exited"
    /\ UNCHANGED <<called, raising, temp_dir, mainVars, dlVars, retryVars,
                   assetVars, placeVars>>

\* except Exception: logger.error, sys.exit(1)
RunExcept ==
    /\ run_pc = "except"
    /\ run_exit' = 1
    /\ run_pc' = "finally"
    /\ UNCHANGED <<called, raising, temp_dir, mainVars, dlVars, retryVars,
                   assetVars, placeVars>>

\* finally: shutil.rmtree(self.temp_dir, ignore_errors=True); run() is left
RunFinally ==
    /\ run_pc = "finally"
    /\ temp_dir' = FALSE
    /\ run_pc' = "exited"
    /\ UNCHANGED <<called, raising, run_exit, mainVars, dlVars, retryVars,
                   assetVars, placeVars>>

InitRun ==
    /\ InitWith({<<Document(PlainBody, PlainBody), <<Entry(PathKey, PathValue)>>>>},
                [scan |-> ScanLimit, window |-> RecoveryWindow],
                {NoPath}, {NoPath}, {UsualRegistry})
    /\ DownloadIdle
    /\ RetryIdle
    /\ AssetIdle
    /\ RunStart
    /\ PlaceIdle

NextRun ==
    \/ RunLoadConfig
    \/ RunPrepareTools
    \/ RunFindDotaPath
    \/ RunExtractNpcHeroes
    \/ RunModifyAliases
    \/ RunCreateVpk
    \/ RunPlaceVpk
    \/ RunExcept
    \/ RunFinally

SpecRun == InitRun /\ [][NextRun]_vars

-----------------------------------------------------------------------------
(* place_vpk: one file is placed                                            *)

\* the packages create_vpk may have made
NewVpk == <<"n1", "n2">>

NewVpks == {NewVpk, <<"m1", "m2", "m3">>}

\* what the game directory may hold under the target name
OldVpks == {<<"v1", "v2">>, <<"n1", "n2">>, <<"w1">>}

\* what it may hold under the .vpk.bak name
OldBackups == {<<"u1">>, <<"v1", "v2">>}

\* what a copy that fails leaves at its destination: the file as it was,
\* or a part of the source
left_by_failed_copy(src, dst) ==
    {dst} \cup {SubSeq(src, 1, n) : n \in 0..(Len(src) - 1)}

\* place_vpk reaches the file in its loop
PlaceStart ==
    /\ target_vpk \in {NoFile} \cup OldVpks
    /\ backup_path \in {NoFile} \cup OldBackups
    /\ source_vpk \in NewVpks
    /\ previous_vpk = target_vpk
    /\ pv_pc = "check"

notPlaceVars == <<mainVars, dlVars, retryVars, assetVars, runVars>>

\* if target_vpk.exists()
CheckTarget ==
    /\ pv_pc = "check"
    /\ pv_pc' = IF exists(target_vpk) THEN "backup" ELSE "copy"
    /\ UNCHANGED <<target_vpk, backup_path, source_vpk, previous_vpk, notPlaceVars>>

\* shutil.copy2(target_vpk, backup_path)
BackupTarget ==
    /\ pv_pc = "backup"
    /\ \/ /\ backup_path' = target_vpk
          /\ pv_pc' = "unlink"
       \/ /\ backup_path' \in left_by_failed_copy(target_vpk, backup_path)
          /\ pv_pc' = "raised"
    /\ UNCHANGED <<target_vpk, source_vpk, previous_vpk, notPlaceVars>>

\* UnlinkTarget that runs without the backup having been made
UnlinkTargetFirst ==
    /\ pv_pc \in {"backup", "unlink"}
    /\ target_vpk' = NoFile
    /\ pv_pc' = "copy"
    /\ UNCHANGED <<backup_path, source_vpk, previous_vpk, notPlaceVars>>

\* target_vpk.unlink()
UnlinkTarget ==
    /\ pv_pc = "unlink"
    /\ \/ /\ target_vpk' = NoFile
          /\ pv_pc' = "copy"
       \/ /\ target_vpk' = target_vpk
          /\ pv_pc' = "raised"
    /\ UNCHANGED <<backup_path, source_vpk, previous_vpk, notPlaceVars>>

\* shutil.copy2(source_vpk, target_vpk)
CopySource ==
    /\ pv_pc = "copy"
    /\ \/ /\ target_vpk' = source_vpk
          /\ pv_pc' = "placed"
       \/ /\ target_vpk' \in left_by_failed_copy(source_vpk, target_vpk)
          /\ pv_pc' = "raised"
    /\ UNCHANGED <<backup_path, source_vpk, previous_vpk, notPlaceVars>>

InitPlace ==
    /\ InitWith({<<Document(PlainBody, PlainBody), <<Entry(PathKey, PathValue)>>>>},
                [scan |-> ScanLimit, window |-> RecoveryWindow],
                {NoPath}, {NoPath}, {UsualRegistry})
    /\ DownloadIdle
    /\ RetryIdle
    /\ AssetIdle
    /\ RunIdle
    /\ PlaceStart

NextPlace ==
    \/ CheckTarget
    \/ BackupTarget
    \/ UnlinkTarget
    \/ CopySource

SpecPlace == InitPlace /\ [][NextPlace]_vars

\* the entry the latest loop iteration handled
Handled == pc = "loop" /\ idx > 1

\* an exception left the loop at the entry idx
RaisedInLoop == pc = "failed" /\ idx \in 1..Len(config)

LastKey == config[idx - 1].key

LastAliases == config[idx - 1].value

\* what the locator returned for that entry, on the text before the iteration
LastFound == extract_hero_section(prev, LastKey)

LastSection == Slice(prev, LastFound.start_pos, LastFound.end_pos)

-----------------------------------------------------------------------------
(* Vocabulary of the properties                                            *)

\* the fields of a value separated by any character of seps
RECURSIVE SplitOn(_, _)
SplitOn(s, seps) ==
    LET cuts == {p \in 1..Len(s) : s[p] \in seps}
    IN  IF cuts = {} THEN <<s>>
        ELSE <<SubSeq(s, 1, SetMin(cuts) - 1)>>
                 \o SplitOn(SubSeq(s, SetMin(cuts) + 1, Len(s)), seps)

NotEmpty(x) == x # <<>>

\* the fields trimmed, the empty ones dropped
Tokens(value, seps) ==
    LET parts == SplitOn(value, seps)
    IN  SelectSeq([k \in 1..Len(parts) |-> strip(parts[k])], NotEmpty)

\* two aliases are the same alias: equal without regard to case, once trimmed
SameAlias(x, y) == lower(strip(x)) = lower(strip(y))

Holds(list, x) == \E k \in 1..Len(list) : SameAlias(list[k], x)

\* list followed by each alias, in order, that the list does not hold yet
RECURSIVE Merged(_, _)
Merged(list, aliases) ==
    IF aliases = <<>> THEN list
    ELSE Merged(IF Holds(list, Head(aliases)) THEN list ELSE Append(list, Head(aliases)),
                Tail(aliases))

NoDuplicates(list) ==
    \A j, k \in 1..Len(list) : j # k => ~SameAlias(list[j], list[k])

\* the text carries a "NameAliases" key
Declares(text) == Find(text, AliasKey, 0) # -1

\* the value of the first declaration of the text: what stands between the
\* first two quotes after the key
DeclaredValue(text) ==
    LET k == Find(text, AliasKey, 0) + Len(AliasKey)
        q1 == Find(text, <<"\"">>, k)
        q2 == Find(text, <<"\"">>, q1 + 1)
    IN  Slice(text, q1 + 1, q2)

\* the text holds a declaration line with exactly this value
DeclaresValue(text, value) ==
    \E gap \in {<<" ">>, <<"\t">>, <<"\t", "\t">>} :
        Find(text, AliasKey \o gap \o <<"\"">> \o value \o <<"\"">>, 0) # -1

\* the latest iteration located a section for its name
Located == Handled /\ LastFound.ok

\* the located section as it stands after the iteration
AfterSection ==
    Slice(content, LastFound.start_pos, Len(content) - (Len(prev) - LastFound.end_pos))

\* the existing value as the merge reads it: split on ';' when it holds one,
\* else on whitespace when the trimmed value holds a space, else one alias
ExistingTokens(value) ==
    IF Find(value, <<";">>, 0) # -1 THEN Tokens(value, {";"})
    ELSE IF Find(strip(value), <<" ">>, 0) # -1
         THEN Tokens(value, {" ", "\t", "\n", "\r", "\f"})
         ELSE Tokens(value, {})

\* how many hero blocks of this name the text holds: the name token alone on
\* a line, followed by the line of the opening brace
BlockStart(hero_name) == <<"\n">> \o NameLine(hero_name) \o OpenLine

BlockCount(text, hero_name) ==
    Cardinality({p \in 0..(Len(text) - Len(BlockStart(hero_name))) :
                    Slice(text, p, p + Len(BlockStart(hero_name))) = BlockStart(hero_name)})

Absent(text, hero_name) == Find(text, hero_pattern(hero_name), 0) = -1

WarningsFor(hero_name) ==
    Cardinality({k \in 1..Len(log) : log[k].level = "warning" /\ log[k].hero = hero_name})

\* the position after the brace that closes the one at open_pos, -1 when the
\* text ends first
RECURSIVE ClosingAfter(_, _, _)
ClosingAfter(text, pos, depth) ==
    IF depth = 0 THEN pos
    ELSE IF pos >= Len(text) THEN -1
    ELSE ClosingAfter(text, pos + 1,
                      IF At(text, pos) = "{" THEN depth + 1
                      ELSE IF At(text, pos) = "}" THEN depth - 1
                      ELSE depth)

MatchingEnd(text, open_pos) == ClosingAfter(text, open_pos + 1, 1)

\* the first occurrence of the hero's quoted name and the first brace after it
TokenPos(text, hero_name) == Find(text, hero_pattern(hero_name), 0)

BracePos(text, hero_name) ==
    IF TokenPos(text, hero_name) = -1 THEN -1
    ELSE Find(text, <<"{">>, TokenPos(text, hero_name))

\* the block that starts there has no closing brace before the end of the
\* text or within the scan distance
EndUnresolved(text, hero_name) ==
    \/ BracePos(text, hero_name) = -1
    \/ MatchingEnd(text, BracePos(text, hero_name)) = -1
    \/ MatchingEnd(text, BracePos(text, hero_name)) - BracePos(text, hero_name)
           > limits.scan

\* only blanks stand between the start of the line and pos
AtLineStart(text, pos) ==
    \E from \in 0..pos :
        /\ from = 0 \/ At(text, from - 1) = "\n"
        /\ \A p \in from..(pos - 1) : At(text, p) \in {" ", "\t"}

\* the text of the first block that is headed by the hero's name line, from
\* the quoted name through the block's closing brace; empty when there is none
BlockText(text, hero_name) ==
    LET at == Find(text, BlockStart(hero_name), 0)
    IN  IF at = -1 THEN <<>>
        ELSE Slice(text, at + 2,
                   MatchingEnd(text, at + Len(BlockStart(hero_name)) - 2))

HeroNames == {Axe, Lina, Zeus, AntiMage}

\* how many declarations the text holds
DeclarationCount(text) ==
    Cardinality({p \in 0..(Len(text) - Len(AliasKey)) :
                    Slice(text, p, p + Len(AliasKey)) = AliasKey})

\* reading or writing the file raised in the current call
IoFailed == \E k \in 1..Len(log) : log[k] = Line("error", "io", <<>>, <<>>)

\* where the line that holds position pos starts
LineStart(text, pos) ==
    IF \E p \in 0..(pos - 1) : At(text, p) = "\n"
    THEN 1 + CHOOSE p \in 0..(pos - 1) :
                 /\ At(text, p) = "\n"
                 /\ \A q \in (p + 1)..(pos - 1) : At(text, q) # "\n"
    ELSE 0

\* the section with a declaration line put right before the line that holds
\* its last character, one tab deeper than the line the section starts on
WithLineBeforeClosing(text, start_pos, end_pos, gap, value) ==
    LET indent == Slice(text, LineStart(text, start_pos), start_pos)
        closing == LineStart(text, end_pos - 1)
    IN  Slice(text, start_pos, closing)
            \o indent \o <<"\t">> \o AliasKey \o gap \o <<"\"">> \o value \o <<"\"", "\n">>
            \o Slice(text, closing, end_pos)

\* the lines of the text: what stands between the newlines
RECURSIVE LinesOf(_)
LinesOf(text) ==
    LET p == Find(text, <<"\n">>, 0)
    IN  IF p = -1 THEN <<text>>
        ELSE <<Slice(text, 0, p)>> \o LinesOf(Slice(text, p + 1, Len(text)))

\* the lines that hold neither a declaration nor a closing '}}', which are
\* the lines an edit rewrites or splits
RECURSIVE OtherLines(_)
OtherLines(lines) ==
    IF lines = <<>> THEN <<>>
    ELSE (IF Declares(Head(lines)) \/ Find(Head(lines), <<"}", "}">>, 0) # -1
          THEN <<>> ELSE <<Head(lines)>>)
             \o OtherLines(Tail(lines))

\* the lines of a occur in b in the same order
RECURSIVE InOrderIn(_, _)
InOrderIn(a, b) ==
    IF a = <<>> THEN TRUE
    ELSE IF b = <<>> THEN FALSE
    ELSE IF Head(a) = Head(b) THEN InOrderIn(Tail(a), Tail(b))
    ELSE InOrderIn(a, Tail(b))

\* the hero names of the first n entries of the configuration, in order
RECURSIVE HeroKeys(_, _)
HeroKeys(entries, n) ==
    IF n = 0 THEN <<>>
    ELSE HeroKeys(entries, n - 1)
             \o (IF entries[n].key = PathKey THEN <<>> ELSE <<entries[n].key>>)

\* the hero names of the 'processing' lines of the log, in order
RECURSIVE ProcessedKeys(_)
ProcessedKeys(lines) ==
    IF lines = <<>> THEN <<>>
    ELSE (IF Head(lines).event = "processing" THEN <<Head(lines).hero>> ELSE <<>>)
             \o ProcessedKeys(Tail(lines))

\* what stands in front of each quoted key on its line, in order
RECURSIVE Indents(_, _)
Indents(text, from) ==
    LET p == Find(text, AliasKey, from)
    IN  IF p = -1 THEN <<>>
        ELSE <<Slice(text, LineStart(text, p), p)>> \o Indents(text, p + 1)

-----------------------------------------------------------------------------
(* C1 *)

\* C1: when the located block has no "NameAliases" declaration and the alias
\* list is not empty, the block afterwards holds a declaration whose value is
\* the configured aliases without case-insensitive duplicates (first
\* occurrence kept, configured order), joined with ';' -- for every layout
\* of the block.
C1_InsertCreatesDeclaration ==
    (Located /\ ~Declares(LastSection) /\ LastAliases # <<>>)
        => DeclaresValue(AfterSection, join(Merged(<<>>, LastAliases), <<";">>))

(* C2 *)

\* C2: when the located block has a declaration, its value afterwards is the
\* existing tokens (trimmed, empty ones dropped, original order) followed by
\* each configured alias, in configured order, that no token already in the
\* list equals case-insensitively, joined with ';'.
C2_MergeRewritesValue ==
    (Located /\ Declares(LastSection))
        => DeclaredValue(AfterSection)
             = join(Merged(ExistingTokens(DeclaredValue(LastSection)), LastAliases), <<";">>)

\* Alpha;Beta merged with [beta, Gamma] became Alpha;Beta;Gamma
C2_Witness ==
    /\ Located
    /\ Declares(LastSection)
    /\ DeclaredValue(LastSection) = ValAlphaBeta
    /\ LastAliases = <<beta, Gamma>>
    /\ DeclaredValue(AfterSection) = ValAlphaBeta \o <<";">> \o Gamma

(* C3 *)

\* C3: after every merge the resulting value, split on ';' and compared
\* without regard to case, holds every token of the original value and every
\* configured alias, and holds no alias twice.
C3_SupersetWithoutDuplicates ==
    (Located /\ Declares(AfterSection))
        => LET result == SplitOn(DeclaredValue(AfterSection), {";"})
               original == IF Declares(LastSection)
                           THEN ExistingTokens(DeclaredValue(LastSection))
                           ELSE <<>>
           IN  /\ \A k \in 1..Len(original) : Holds(result, original[k])
               /\ \A k \in 1..Len(LastAliases) : Holds(result, LastAliases[k])
               /\ NoDuplicates(result)

(* C4 *)

\* C4: a second call of modify_aliases with the same configuration leaves
\* the file exactly as the first call wrote it.
C4_Idempotent == (pc = "done" /\ runs = 2) => file = firstOut

(* C5 *)

\* C5: when every configured alias equals, without regard to case, a token
\* of the existing value, the iteration changes nothing in the text: no line
\* is inserted and none is altered.
C5_NothingToAddChangesNothing ==
    (/\ Located
     /\ Declares(LastSection)
     /\ \A k \in 1..Len(LastAliases) :
           \E j \in 1..Len(ExistingTokens(DeclaredValue(LastSection))) :
              lower(ExistingTokens(DeclaredValue(LastSection))[j]) = lower(LastAliases[k]))
        => content = prev

(* C6 *)

\* C6: an iteration leaves the text before the start of the located section
\* and the text after its end as they were, and the section of every other
\* hero is the same text afterwards.
C6_OutsideSectionUnchanged ==
    Located
        => LET found == LastFound
           IN  /\ Len(content) >= found.start_pos + (Len(prev) - found.end_pos)
               /\ Slice(content, 0, found.start_pos) = Slice(prev, 0, found.start_pos)
               /\ Slice(content, Len(content) - (Len(prev) - found.end_pos), Len(content))
                    = Slice(prev, found.end_pos, Len(prev))
               /\ \A h \in {Axe, Lina, Zeus} \ {LastKey} :
                     LET before == extract_hero_section(prev, h)
                         after == extract_hero_section(content, h)
                     IN  before.ok
                            => /\ after.ok
                               /\ Slice(content, after.start_pos, after.end_pos)
                                    = Slice(prev, before.start_pos, before.end_pos)

(* C7 *)

\* C7: a well-formed block whose name occurs as a block exactly once is
\* always located: the section starts at the block's quoted name token and
\* ends at a closing brace, however short the block and whatever precedes it.
C7_WellFormedBlockLocated ==
    (Handled /\ LastKey # PathKey /\ BlockCount(prev, LastKey) = 1)
        => /\ LastFound.ok
           /\ LastFound.start_pos = Find(prev, BlockStart(LastKey), 0) + 2
           /\ At(prev, LastFound.end_pos - 1) = "}"

(* C8 *)

\* C8: when the block holds two or more declarations only the first is
\* edited: the text from the second "NameAliases" key to the end of the
\* section is the same afterwards.
C8_LaterDeclarationsKept ==
    LET k1 == Find(LastSection, AliasKey, 0)
        k2 == IF k1 = -1 THEN -1 ELSE Find(LastSection, AliasKey, k1 + 1)
    IN  (Located /\ k2 # -1)
            => /\ Len(AfterSection) >= Len(LastSection) - k2
               /\ Slice(AfterSection, Len(AfterSection) - (Len(LastSection) - k2),
                        Len(AfterSection))
                    = Slice(LastSection, k2, Len(LastSection))

(* C9 *)

\* C9: comma and semicolon both separate the aliases of an existing value:
\* with 'A,B' the tokens are A and B, so merging 'b' adds nothing and
\* merging 'C' gives the tokens A, B, C.
C9_CommaSeparates ==
    (Located /\ Declares(LastSection)
        /\ Find(DeclaredValue(LastSection), <<",">>, 0) # -1)
        => Tokens(DeclaredValue(AfterSection), {",", ";"})
             = Merged(Tokens(DeclaredValue(LastSection), {",", ";"}), LastAliases)

(* C10 *)

\* C10: a configured name with no block in the document gets one skip
\* warning, changes nothing in the text and does not abort the call; the
\* other names are still processed and the document is written.
C10_AbsentNameSkipped ==
    /\ (Handled /\ LastKey # PathKey /\ Absent(prev, LastKey))
          => /\ content = prev
             /\ WarningsFor(LastKey) = 1
             /\ log[Len(log)] = Line("warning", "skipping", LastKey, <<>>)
    /\ RaisedInLoop => ~Absent(content, config[idx].key)
    /\ pc = "done"
          => /\ file = content
             /\ \A k \in 1..Len(config) :
                   config[k].key # PathKey
                      => \E j \in 1..Len(log) :
                            log[j] = Line("info", "processing", config[k].key, <<>>)

\* a call with an absent name ended, and the file it wrote carries the edit
\* of another name
C10_Witness ==
    /\ pc = "done"
    /\ \E k \in 1..Len(config) : config[k].key # PathKey /\ Absent(backup, config[k].key)
    /\ WarningsFor(Zeus) = 1
    /\ file # backup

-----------------------------------------------------------------------------
(* C11 *)

\* C11: when the quoted name of a hero is found but the block that starts
\* there has no matching closing brace before the end of the text or within
\* the scan distance, the merge does not run: the text is unchanged, the name
\* is skipped with a warning and the loop goes on.
C11_UnresolvedEndSkipped ==
    (/\ Handled
     /\ LastKey # PathKey
     /\ ~Absent(prev, LastKey)
     /\ EndUnresolved(prev, LastKey))
        => /\ content = prev
           /\ log[Len(log)] = Line("warning", "skipping", LastKey, <<>>)

-----------------------------------------------------------------------------
(* C12 *)

\* C12: a failure raised while one hero name is processed (the ValueError of
\* the section validation, an alias list that is missing or holds an entry
\* that is no string) is turned into a skip with a warning: no exception
\* leaves the loop at an entry, and run() does not exit with an error there.
C12_FailureBecomesSkip ==
    /\ ~RaisedInLoop
    /\ ~(pc = "exited" /\ idx \in 1..Len(config))

-----------------------------------------------------------------------------
(* C13 *)

\* C13: the section the locator returns starts at a quoted name that is the
\* first thing on its line; a quoted name that stands elsewhere (as a value
\* inside another block) ahead of the hero's own block is not taken as the
\* start, and handling a name never edits the block of another name.
C13_StartIsNameLine ==
    Located
       => /\ AtLineStart(prev, LastFound.start_pos)
          /\ \A h \in HeroNames \ {LastKey} : BlockText(content, h) = BlockText(prev, h)

-----------------------------------------------------------------------------
(* C14 *)

\* C14: when the document holds several blocks headed by the same hero name,
\* the locator returns the first of them, and the iteration for that name
\* leaves the text before the first block and everything after its closing
\* brace, the later blocks of that name included, as it was.
C14_OnlyFirstTwinEdited ==
    (Handled /\ LastKey # PathKey /\ BlockCount(prev, LastKey) >= 2)
       => LET first == Find(prev, BlockStart(LastKey), 0) + 2
              firstEnd == first + Len(BlockText(prev, LastKey))
          IN  /\ Located => /\ LastFound.start_pos = first
                            /\ LastFound.end_pos = firstEnd
              /\ Len(content) >= first + (Len(prev) - firstEnd)
              /\ Slice(content, 0, first) = Slice(prev, 0, first)
              /\ Slice(content, Len(content) - (Len(prev) - firstEnd), Len(content))
                   = Slice(prev, firstEnd, Len(prev))

\* the first of two blocks with the same text was edited
C14_Witness ==
    /\ Located
    /\ BlockCount(prev, LastKey) >= 2
    /\ content # prev
    /\ Find(prev, LastSection, LastFound.end_pos) # -1

-----------------------------------------------------------------------------
(* C15 *)

\* C15: when the located block holds more than one NameAliases declaration,
\* the iteration records exactly one warning for that hero (the ambiguity
\* warning) and the loop goes on.
C15_AmbiguityWarned ==
    (Located /\ DeclarationCount(LastSection) > 1)
       => /\ WarningsFor(LastKey) = 1
          /\ pc = "loop"

-----------------------------------------------------------------------------
(* C16 *)

\* C16: once reading or writing npc_heroes.txt has failed inside
\* modify_aliases, run() does nothing but log the error and exit with status
\* 1: create_vpk and place_vpk are not executed, so nothing is packed and
\* nothing is placed.
C16_IoFailureFatal ==
    IoFailed
       => /\ pc \in {"failed", "exited"}
          /\ vpk = <<>>
          /\ placed = <<>>
          /\ pc = "failed" => ENABLED ExitOnError
          /\ pc = "exited" => /\ exit_status = 1
                              /\ log[Len(log)] = Line("error", "run", <<>>, <<>>)

\* the write failed after the text had been edited, and run() has exited
C16_Witness ==
    /\ IoFailed
    /\ pc = "exited"
    /\ exit_status = 1
    /\ backup # <<>>
    /\ content # backup

-----------------------------------------------------------------------------
(* C17 *)

\* C17: when --dota-path is given, it is stored in the DOTA2_PATH environment
\* variable and find_dota_path sets dota_path to it: find_dota_path does not
\* raise, whatever the registry search finds.
C17_GivenPathUsed ==
    (args # NoPath /\ pc \notin {"main", "find"})
       => /\ environ = args
          /\ dota_path = args
          /\ pc \notin {"failed", "exited"}

-----------------------------------------------------------------------------
(* C18 *)

\* C18: a section the locator returns ends exactly after the closing brace
\* that matches the block's opening brace: where a nesting count that starts
\* at 1 after the opening brace first returns to 0, not at the brace of a
\* nested sub-block and not further on, also when the end was found by the
\* recovery search for '}}'.
C18_EndsAtMatchingBrace ==
    Located => LastFound.end_pos = MatchingEnd(prev, BracePos(prev, LastKey))

-----------------------------------------------------------------------------
(* C19 *)

\* C19: the brace scan of the locator examines at most as many characters as
\* the smaller of the scan distance and the text that remains after the
\* opening brace, and when the nesting count has not returned to 0 by then
\* the locator returns no section.
C19_ScanBoundedThenFails ==
    (Handled /\ LastKey # PathKey /\ BracePos(prev, LastKey) # -1)
       => LET opening_brace_pos == BracePos(prev, LastKey)
              remaining == Len(prev) - opening_brace_pos
              max_length == IF limits.scan < remaining THEN limits.scan ELSE remaining
              scanned == scan_braces(prev, opening_brace_pos + 1, 1,
                                     opening_brace_pos, max_length)
          IN  /\ scanned.pos - (opening_brace_pos + 1) <= max_length
              /\ scanned.brace_count # 0 => ~LastFound.ok

-----------------------------------------------------------------------------
(* C20 *)

\* C20: when a declaration is inserted into a block that had none, the new
\* line stands immediately before the line that holds the block's own
\* closing brace, indented one tab deeper than the block's name line, and
\* the rest of the block is as it was.
C20_InsertedBeforeClosingLine ==
    (Located /\ ~Declares(LastSection) /\ Declares(AfterSection))
       => \E gap \in {<<" ">>, <<"\t">>} :
             AfterSection = WithLineBeforeClosing(prev, LastFound.start_pos,
                                                  LastFound.end_pos, gap,
                                                  DeclaredValue(AfterSection))

-----------------------------------------------------------------------------
(* C21 *)

\* C21: the names are handled one at a time in the order of the
\* configuration, 'path' never as a name, and each edit is made where the
\* locator finds the section in the text as the previous iteration left it:
\* the text before that section and after it is unchanged, and the edited
\* section still starts with the quoted name.
C21_InOrderOnCurrentText ==
    Handled
       => /\ ProcessedKeys(log) = HeroKeys(config, idx - 1)
          /\ LastKey = PathKey => content = prev
          /\ (LastKey # PathKey /\ ~LastFound.ok) => content = prev
          /\ (LastKey # PathKey /\ LastFound.ok)
                => /\ Len(content) >= LastFound.start_pos + (Len(prev) - LastFound.end_pos)
                   /\ Slice(content, 0, LastFound.start_pos)
                        = Slice(prev, 0, LastFound.start_pos)
                   /\ Slice(content, Len(content) - (Len(prev) - LastFound.end_pos),
                            Len(content))
                        = Slice(prev, LastFound.end_pos, Len(prev))
                   /\ Slice(content, LastFound.start_pos,
                            LastFound.start_pos + Len(hero_pattern(LastKey)))
                        = hero_pattern(LastKey)

\* a second name was edited after an earlier edit had moved its section
C21_Witness ==
    /\ Located
    /\ content # prev
    /\ prev # backup
    /\ LastFound.start_pos # Find(backup, hero_pattern(LastKey), 0)

-----------------------------------------------------------------------------
(* C22 *)

\* C22: handling one name adds at most one line and removes none, the lines
\* that the edit does not rewrite stay in their order, and a whole call adds at
\* most as many lines as the configuration has hero names.
C22_AtMostOneLineAdded ==
    /\ (Handled /\ LastKey # PathKey)
          => /\ Count(content, "\n") >= Count(prev, "\n")
             /\ Count(content, "\n") <= Count(prev, "\n") + 1
             /\ InOrderIn(OtherLines(LinesOf(prev)), LinesOf(content))
    /\ (pc = "done" /\ log[Len(log)].event = "modified")
          => Count(file, "\n") <= Count(backup, "\n") + Len(HeroKeys(config, Len(config)))

-----------------------------------------------------------------------------
(* C23 *)

\* C23: when an existing declaration is rewritten, what stands in front of
\* the quoted key on its line is kept as it was, for every declaration of
\* the text.
C23_IndentationKept ==
    (Located /\ Declares(LastSection)) => Indents(content, 0) = Indents(prev, 0)

\* a declaration indented by three tabs was rewritten
C23_Witness ==
    /\ Located
    /\ Declares(LastSection)
    /\ content # prev
    /\ <<"\t", "\t", "\t">> \in {Indents(LastSection, 0)[k] :
                                      k \in 1..Len(Indents(LastSection, 0))}

-----------------------------------------------------------------------------
(* C24 *)

\* the destination was written by this call
Written == dest_file \notin {NoFile, OldDest}

\* C24: when a Range request was sent and the answer is not 206 (and not the
\* 416 that leads to a second request), the file published as the
\* destination is exactly the body received, without the earlier partial
\* bytes in front of it.
C24_FreshWhenRangeIgnored ==
    (dl_pc = "published" /\ response.ranged /\ response.status_code # 206)
        => dest_file = response.sent

-----------------------------------------------------------------------------
(* C25 *)

\* the destination is untouched and the .part file is there
Unpublished == ~Written /\ exists(temp_file)

\* what C25 says of a failed or short transfer and of a True result
NoShortTransferPublished ==
    /\ dl_pc \in {"raise_receive", "incomplete"} => Unpublished
    /\ (dl_pc \in {"receive", "raise_receive"} /\ response.error) => ~Written
    /\ dl_pc = "published"
          => /\ ~response.error
             /\ response.body = <<>>
             /\ ~too_few(downloaded_bytes, expected_size)

\* C25 as stated: a short or failed transfer is never published, and the
\* destination is written only by renaming the .part file after the loop.
C25_OnlyAfterLoop ==
    /\ NoShortTransferPublished
    /\ Written => (dl_pc \in {"published", "raise_empty"} /\ temp_file = NoFile)

\* C25, amended: a short or failed transfer is never published, and the
\* destination is written only by renaming the .part file after the loop or,
\* on status 416, by copying a .part file that has the expected size.
C25_OnlyAfterLoopOrComplete ==
    /\ NoShortTransferPublished
    /\ Written
          => \/ dl_pc \in {"published", "raise_empty"} /\ temp_file = NoFile
             \/ /\ dl_pc = "complete"
                /\ response.status_code = 416
                /\ dest_file = temp_file
                /\ st_size(temp_file) = expected_size

\* 60 of the 101 expected bytes came and the loop ended: False is returned
C25_Witness ==
    /\ dl_pc = "incomplete"
    /\ temp_file = <<"h">>
    /\ dest_file = OldDest
    /\ expected_size = 101

-----------------------------------------------------------------------------
(* C27 *)

\* C27: on status 416 the partial file is published only when its size is the
\* expected size of the HEAD request; otherwise the second request carries no
\* Range header, the .part file is opened in truncate mode, and what is
\* written and published is the body of the second answer alone.
C27_RangeErrorHandled ==
    /\ dl_pc = "complete"
          => /\ response.status_code = 416
             /\ st_size(temp_file) = expected_size
             /\ dest_file = temp_file
    /\ (dl_pc = "answered" /\ response.status_code = 416) => range_header
    /\ dl_pc = "refetched" => (~range_header /\ ~resume_download /\ ~response.ranged)
    /\ (response.status_code # 0 /\ ~response.ranged)
          => /\ ~resume_download
             /\ file_mode \in {"none", "wb"}
             /\ dl_pc = "receive" => temp_file \o response.body = response.sent
             /\ dl_pc = "published" => dest_file = response.sent

\* the second request after a 416 was answered while a partial file of
\* another size than expected is there
C27_Witness ==
    /\ dl_pc = "refetched"
    /\ response.status_code = 200
    /\ temp_file = <<"h">>
    /\ expected_size = 101

-----------------------------------------------------------------------------
(* C26 *)

\* the calls of func that raised an Exception
FailedCalls == {k \in 1..Len(calls) : calls[k] \in Exceptions}

\* C26: func is called at most max_retries times; the value of the first call
\* that succeeds is returned and no call follows it; the k-th sleep (from 0)
\* lasts initial_delay * 2^k and there is one sleep for every failed call
\* that is not the last one allowed; and when the calls are used up, the
\* exception raised is the one of the last call.
C26_RetriesThenLastException ==
    /\ Len(calls) <= max_retries
    /\ \A k \in 1..(Len(calls) - 1) : calls[k] \in Exceptions
    /\ rt_pc = "returned"
          => calls # <<>> /\ rt_result = calls[Len(calls)] /\ rt_result \in Returns
    /\ \A k \in 1..Len(sleeps) : sleeps[k] = initial_delay * Pow2(k - 1)
    /\ rt_pc \in {"loop", "returned"} => Len(sleeps) = Cardinality(FailedCalls)
    /\ rt_pc \in {"exhausted", "raised"}
          => Len(sleeps) = Cardinality(FailedCalls \ {max_retries})
    /\ (rt_pc = "raised" /\ (calls = <<>> \/ calls[Len(calls)] # Interrupt))
          => /\ Len(calls) = max_retries
             /\ calls # <<>>
             /\ rt_result = calls[Len(calls)]

-----------------------------------------------------------------------------
(* C28 *)

\* the name of asset k is the pattern, without regard to case
EqualsPattern(k) == lower(assets[k]) = lower(asset_pattern)

\* the name of asset k contains the pattern, without regard to case
ContainsPattern(k) ==
    \E p \in 0..Len(assets[k]) :
        /\ p + Len(asset_pattern) <= Len(assets[k])
        /\ lower(Slice(assets[k], p, p + Len(asset_pattern))) = lower(asset_pattern)

\* the parts of a name between '-' and '_', without regard to case
PartsOf(name) ==
    LET parts == SplitOn(lower(name), {"-", "_"})
    IN  {parts[k] : k \in 1..Len(parts)} \ {<<>>}

\* asset k shares two parts or more with the pattern
SharesParts(k) == Cardinality(PartsOf(assets[k]) \cap PartsOf(asset_pattern)) >= 2

Positions == 1..Len(assets)

\* C28: the asset returned is the first one that equals the pattern if there
\* is one, else the first that contains it, else the first that shares two
\* parts with it; when no asset does any of these, an error is raised and
\* nothing is returned.
C28_StrictPriority ==
    /\ as_pc = "returned"
          => /\ chosen_asset \in Positions
             /\ IF \E k \in Positions : EqualsPattern(k)
                THEN /\ EqualsPattern(chosen_asset)
                     /\ \A k \in 1..(chosen_asset - 1) : ~EqualsPattern(k)
                ELSE IF \E k \in Positions : ContainsPattern(k)
                THEN /\ ContainsPattern(chosen_asset)
                     /\ \A k \in 1..(chosen_asset - 1) : ~ContainsPattern(k)
                ELSE /\ SharesParts(chosen_asset)
                     /\ \A k \in 1..(chosen_asset - 1) : ~SharesParts(k)
    /\ as_pc = "raised" => chosen_asset = 0
    /\ (as_pc \in {"returned", "raised"}
           /\ \A k \in Positions :
                 ~EqualsPattern(k) /\ ~ContainsPattern(k) /\ ~SharesParts(k))
          => as_pc = "raised"

\* the third asset equals the pattern and is returned, although the first
\* shares two parts with it and the second contains it
C28_Witness ==
    /\ as_pc = "returned"
    /\ chosen_asset = 3
    /\ SharesParts(1) /\ ~ContainsPattern(1)
    /\ ContainsPattern(2) /\ ~EqualsPattern(2)

-----------------------------------------------------------------------------
(* C29 *)

\* the last method called
LastCalled == called[Len(called)]

\* C29: the methods are called in the order of run()'s body, none is called
\* after one that raised, the exit status is 1 exactly when a method raised
\* and 0 only after all seven returned, and when run() is left the temp
\* directory is gone.
C29_FixedOrderAndCleanup ==
    /\ called = SubSeq(Order, 1, Len(called))
    /\ \A k \in 1..(Len(called) - 1) : called[k] \notin raising
    /\ run_exit = 1 => (called # <<>> /\ LastCalled \in raising)
    /\ run_exit = 0 => (called = Order /\ LastCalled \notin raising)
    /\ run_pc = "exited"
          => /\ ~temp_dir
             /\ run_exit \in {0, 1}
             /\ called # <<>>
             /\ run_exit = 1 <=> LastCalled \in raising

\* modify_aliases raised: run() was left with status 1 after five calls
C29_Witness ==
    /\ run_pc = "exited"
    /\ run_exit = 1
    /\ Len(called) = 5
    /\ ~temp_dir

-----------------------------------------------------------------------------
(* C30 *)

\* C30: as long as the target no longer holds the content it had at the call,
\* the backup holds that content; and after the return the target holds the
\* new package and, when there was a target before, the backup holds what
\* it held.
C30_BackupBeforeReplace ==
    /\ (exists(previous_vpk) /\ target_vpk # previous_vpk)
          => backup_path = previous_vpk
    /\ pv_pc \in {"unlink", "copy"} /\ exists(previous_vpk)
          => backup_path = previous_vpk
    /\ pv_pc = "placed"
          => /\ target_vpk = source_vpk
             /\ exists(previous_vpk) => backup_path = previous_vpk

\* a target with other content than the package was replaced
C30_Witness ==
    /\ pv_pc = "placed"
    /\ previous_vpk = <<"v1", "v2">>
    /\ target_vpk = NewVpk
    /\ backup_path = <<"v1", "v2">>

====
